---- MODULE Spec2Model ----
(***************************************************************************)
(* A model of the analytics core of flux-rx (src/flux_rx/analytics.py).    *)
(*                                                                         *)
(* The metric functions are pure functions of a price series (a pandas     *)
(* Series: an ordered index of dates with one value per date) and of the   *)
(* module global _RISK_FREE_RATE.  Each function is an operator that       *)
(* computes what the code computes and an action that calls it on the      *)
(* current inputs and records the outcome (a value or a raised exception). *)
(*                                                                         *)
(* Numbers.  A float is modelled by the exact rational it stands for,      *)
(* [n |-> numerator, d |-> denominator], in lowest terms with d > 0; the   *)
(* non-finite floats are d = 0: NaN is 0/0 and the infinities are 1/0 and  *)
(* -1/0.  Arithmetic follows IEEE-754 for the non-finite values and is     *)
(* exact on the finite ones (rounding error is not modelled).  A square    *)
(* root is kept as c * sqrt(q) for rationals c and q, a compound annual    *)
(* growth rate (an irrational power) as a linear form over the symbol      *)
(* base^exponent.                                                          *)
(***************************************************************************)
EXTENDS Integers, Sequences, FiniteSets, TLC

\* ------------------------------------------------------------------ bounds

\* Longest price series drawn as an input.
MaxLen == 4
\* Prices are the integers 1..MaxPrice.
MaxPrice == 4
\* Longest leading gap (missing values at the start of a fetched series).
MaxGap == 1
\* Dates and price levels of the two-series (asset, benchmark) inputs.
BenchDates == 4
BenchPrice == 2
\* Longest rolling window passed to the rolling functions.
MaxWindow == 3
\* Most keyword arguments in one set_config call.
MaxKwargs == 2
\* Length and price levels of the series the risk-free rate is exercised on.
RateLen == 3
RatePrice == 3
\* Most rows of a price matrix, and its price levels 1..MatrixPrice.
MaxRows == 3
MatrixPrice == 2
\* The solver's iterates lie on the grid of step 1 / WeightSteps.
WeightSteps == 2
\* Dates 1..AlignDates of the frames handed to align_dataframes.
AlignDates == 2
\* Most entries of a dict handed to format_metrics.
MaxItems == 2
\* Most rows, and highest price, of the series handed to hurst_exponent with a
\* small max_lag.
HurstLen == 6
HurstPrice == 2
\* Most rows, and highest price, of the series with free dates handed to cagr.
CagrLen == 3
CagrPrice == 3

\* --------------------------------------------------------------- rationals

Abs(x) == IF x < 0 THEN -x ELSE x

Sign(x) == IF x < 0 THEN -1 ELSE IF x > 0 THEN 1 ELSE 0

RECURSIVE GCD(_, _)
GCD(a, b) == IF b = 0 THEN a ELSE GCD(b, a % b)

\* The float n/d: reduced to lowest terms; x/0 is an infinity and 0/0 is NaN.
Rat(n, d) ==
    IF d = 0 THEN [n |-> Sign(n), d |-> 0]
    ELSE LET g == GCD(Abs(n), Abs(d))
             s == Sign(d)
         IN  [n |-> (s * n) \div g, d |-> (s * d) \div g]

NaN == [n |-> 0, d |-> 0]
Zero == [n |-> 0, d |-> 1]
One == [n |-> 1, d |-> 1]
Int2F(i) == [n |-> i, d |-> 1]

IsNaN(a) == a.d = 0 /\ a.n = 0
IsInf(a) == a.d = 0 /\ a.n # 0
IsFinite(a) == a.d # 0

FNeg(a) == [n |-> -a.n, d |-> a.d]

FAdd(a, b) ==
    IF IsNaN(a) \/ IsNaN(b) THEN NaN
    ELSE IF IsInf(a) /\ IsInf(b) THEN (IF a.n = b.n THEN a ELSE NaN)
    ELSE IF IsInf(a) THEN a
    ELSE IF IsInf(b) THEN b
    ELSE LET g == GCD(a.d, b.d)
         IN  Rat(a.n * (b.d \div g) + b.n * (a.d \div g), (a.d \div g) * b.d)

FSub(a, b) == FAdd(a, FNeg(b))

FMul(a, b) ==
    IF IsNaN(a) \/ IsNaN(b) THEN NaN
    ELSE IF IsInf(a) \/ IsInf(b)
         THEN (IF a.n = 0 \/ b.n = 0 THEN NaN ELSE [n |-> Sign(a.n) * Sign(b.n), d |-> 0])
    ELSE LET g == GCD(Abs(a.n), b.d)
             h == GCD(Abs(b.n), a.d)
         IN  Rat((a.n \div g) * (b.n \div h), (a.d \div h) * (b.d \div g))

FDiv(a, b) ==
    IF IsNaN(a) \/ IsNaN(b) THEN NaN
    ELSE IF IsInf(a) THEN (IF IsInf(b) THEN NaN
                           ELSE [n |-> a.n * (IF b.n < 0 THEN -1 ELSE 1), d |-> 0])
    ELSE IF IsInf(b) THEN Zero
    ELSE IF b.n = 0 THEN Rat(a.n, 0)
    ELSE FMul(a, Rat(b.d, b.n))

\* Float comparisons: every comparison with NaN is false, except !=.
FLt(a, b) ==
    /\ ~IsNaN(a) /\ ~IsNaN(b)
    /\ IF IsInf(a) \/ IsInf(b)
       THEN (a.d = 0 /\ a.n < 0 /\ ~(b.d = 0 /\ b.n < 0)) \/ (b.d = 0 /\ b.n > 0 /\ ~(a.d = 0 /\ a.n > 0))
       ELSE a.n * b.d < b.n * a.d
FGt(a, b) == FLt(b, a)
FEq(a, b) == ~IsNaN(a) /\ ~IsNaN(b) /\ a = b
FNe(a, b) == ~FEq(a, b)
FLe(a, b) == FLt(a, b) \/ FEq(a, b)
FAbs(a) == [n |-> Abs(a.n), d |-> a.d]

\* ------------------------------------------------------------ square roots

\* c * sqrt(q): a float that is a rational multiple of a square root.  Zero and
\* NaN have one form each.
RootNaN == [c |-> NaN, q |-> NaN]
RootZero == [c |-> Zero, q |-> Zero]
Root(c, q) ==
    IF IsNaN(c) \/ IsNaN(q) \/ q.n < 0 THEN RootNaN
    ELSE IF (c = Zero /\ IsInf(q)) \/ (IsInf(c) /\ q = Zero) THEN RootNaN
    ELSE IF c = Zero \/ q = Zero THEN RootZero
    ELSE [c |-> c, q |-> q]
\* np.sqrt of a float (the square root of a negative number is NaN).
FSqrt(a) == Root(One, a)
RootIsNaN(r) == IsNaN(r.c)
\* root == 0 as the float comparison decides it.
RootEqZero(r) == r = RootZero
RootMul(r, s) ==
    IF RootIsNaN(r) \/ RootIsNaN(s) THEN RootNaN ELSE Root(FMul(r.c, s.c), FMul(r.q, s.q))
\* a float divided by a root.
FDivRoot(a, r) ==
    IF IsNaN(a) \/ RootIsNaN(r) THEN RootNaN
    ELSE IF r = RootZero THEN (IF a = Zero THEN RootNaN ELSE Root(Rat(a.n, 0), One))
    ELSE Root(FDiv(a, r.c), FDiv(One, r.q))

\* The square of a root, a float.
RootSq(r) == FMul(FMul(r.c, r.c), r.q)
\* root > a and root <= a for a float a, as the float comparisons decide them.
RootGt(r, a) ==
    /\ ~RootIsNaN(r) /\ ~IsNaN(a)
    /\ IF r.c.n >= 0 THEN a.n < 0 \/ FGt(RootSq(r), FMul(a, a))
       ELSE a.n < 0 /\ FLt(RootSq(r), FMul(a, a))
RootLe(r, a) == ~RootIsNaN(r) /\ ~IsNaN(a) /\ ~RootGt(r, a)

\* ------------------------------------------------------------ linear forms

\* The float base^expo of cagr for base > 0, base # 1: an irrational number in
\* general, kept as a symbol.  A linear form c + SUM x[s] * s over such symbols
\* carries the arithmetic done on a CAGR.
EmptyTerms == [s \in {} |-> Zero]
LinConst(q) == [c |-> q, x |-> EmptyTerms]
LinNaN == LinConst(NaN)
LinSym(b, e) == [c |-> Zero, x |-> [s \in {[b |-> b, e |-> e]} |-> One]]
LinIsNaN(l) == IsNaN(l.c)
LinCoef(l, s) == IF s \in DOMAIN l.x THEN l.x[s] ELSE Zero
LinAdd(a, b) ==
    IF LinIsNaN(a) \/ LinIsNaN(b) THEN LinNaN
    ELSE LET D == DOMAIN a.x \cup DOMAIN b.x
             f == [s \in D |-> FAdd(LinCoef(a, s), LinCoef(b, s))]
             K == {s \in D : f[s] # Zero}
         IN  [c |-> FAdd(a.c, b.c), x |-> [s \in K |-> f[s]]]
LinScale(a, q) ==
    IF LinIsNaN(a) \/ IsNaN(q) THEN LinNaN
    ELSE IF q = Zero THEN LinConst(Zero)
    ELSE [c |-> FMul(a.c, q), x |-> [s \in DOMAIN a.x |-> FMul(a.x[s], q)]]
LinSub(a, b) == LinAdd(a, LinScale(b, FNeg(One)))
\* The form is the float 0.0 (as == 0 decides it).
LinEqZero(l) == ~LinIsNaN(l) /\ l.c = Zero /\ DOMAIN l.x = {}

\* ------------------------------------------------------------------ pandas

\* A Series is a sequence of rows [t |-> date, v |-> float], in index order.
RECURSIVE SeqSum(_)
SeqSum(s) == IF s = <<>> THEN Zero ELSE FAdd(Head(s), SeqSum(Tail(s)))

\* The values of a Series with the missing ones skipped (skipna=True).
Values(s) == LET k == SelectSeq(s, LAMBDA e : ~IsNaN(e.v)) IN [i \in DOMAIN k |-> k[i].v]

\* Series.dropna()
dropna(s) == SelectSeq(s, LAMBDA e : ~IsNaN(e.v))

\* Series.pct_change(): v[i] / v[i-1] - 1, undefined at the first row.  The
\* inputs hold missing values only as a leading gap, where the library's
\* padding of missing values (fill_method) changes nothing.
pct_change(s) ==
    [i \in DOMAIN s |->
        [t |-> s[i].t,
         v |-> IF i = 1 THEN NaN ELSE FSub(FDiv(s[i].v, s[i - 1].v), One)]]

\* Series.mean(): NaN for no values.
mean(xs) == IF Len(xs) = 0 THEN NaN ELSE FDiv(SeqSum(xs), Int2F(Len(xs)))

\* Series.var(): the sample variance (ddof = 1), NaN for fewer than 2 values.
var(xs) ==
    IF Len(xs) < 2 THEN NaN
    ELSE LET m == mean(xs)
             sq == [i \in DOMAIN xs |-> FMul(FSub(xs[i], m), FSub(xs[i], m))]
         IN  FDiv(SeqSum(sq), Int2F(Len(xs) - 1))

\* Series.std(): the square root of var().
std(xs) == FSqrt(var(xs))

\* Series.cov(other) of two columns of one frame: NaN for fewer than 2 rows.
cov(xs, ys) ==
    IF Len(xs) < 2 THEN NaN
    ELSE LET mx == mean(xs)
             my == mean(ys)
             pr == [i \in DOMAIN xs |-> FMul(FSub(xs[i], mx), FSub(ys[i], my))]
         IN  FDiv(SeqSum(pr), Int2F(Len(xs) - 1))

\* Series.cummax(): the running maximum, NaN at a missing value.
RECURSIVE RunMax(_, _)
RunMax(s, i) ==
    IF i = 0 THEN NaN
    ELSE LET m == RunMax(s, i - 1)
         IN  IF IsNaN(s[i].v) THEN m
             ELSE IF IsNaN(m) \/ FGt(s[i].v, m) THEN s[i].v ELSE m
\* The maximum of the whole series in every row (prices.max() for cummax()).
overall_max(s) ==
    [i \in DOMAIN s |-> [t |-> s[i].t, v |-> IF IsNaN(s[i].v) THEN NaN ELSE RunMax(s, Len(s))]]
cummax(s) ==
    [i \in DOMAIN s |-> [t |-> s[i].t, v |-> IF IsNaN(s[i].v) THEN NaN ELSE RunMax(s, i)]]

\* Series.min(): the least value, NaN for no values.
RECURSIVE SeqMin(_)
SeqMin(xs) ==
    IF Len(xs) = 0 THEN NaN
    ELSE IF Len(xs) = 1 THEN xs[1]
    ELSE LET m == SeqMin(Tail(xs)) IN IF FLt(xs[1], m) THEN xs[1] ELSE m

\* Series.cumprod()
RECURSIVE RunProd(_, _)
RunProd(s, i) == IF i = 0 THEN One ELSE FMul(RunProd(s, i - 1), s[i].v)
cumprod(s) == [i \in DOMAIN s |-> [t |-> s[i].t, v |-> RunProd(s, i)]]

\* A Series with a float applied to every row.
AddScalar(s, c) == [i \in DOMAIN s |-> [t |-> s[i].t, v |-> FAdd(s[i].v, c)]]

\* The increasing sequence of the members of a finite set of integers.
RECURSIVE SortedSeq(_)
SortedSeq(S) ==
    IF S = {} THEN <<>>
    ELSE LET m == CHOOSE x \in S : \A y \in S : x <= y
         IN  <<m>> \o SortedSeq(S \ {m})

Index(s) == {s[i].t : i \in DOMAIN s}
At(s, t) == IF t \in Index(s) THEN (CHOOSE e \in {s[i] : i \in DOMAIN s} : e.t = t).v ELSE NaN

\* pd.DataFrame({"asset": a, "bench": b}): the rows of the union of the two
\* indexes, in order, a column being NaN where its Series has no such date.
DataFrame(a, b) ==
    LET ts == SortedSeq(Index(a) \cup Index(b))
    IN  [i \in DOMAIN ts |-> [t |-> ts[i], asset |-> At(a, ts[i]), bench |-> At(b, ts[i])]]

\* DataFrame.dropna(): the rows with no missing value.
dropna_rows(f) == SelectSeq(f, LAMBDA r : ~IsNaN(r.asset) /\ ~IsNaN(r.bench))

Column(f, c) == [i \in DOMAIN f |-> f[i][c]]

\* ----------------------------------------------------------------- results

\* What a call produced: a value of type ty ("rat": a float, "root": a multiple
\* of a square root, "lin": a linear form, "series": a Series) or a raised exception
\* of class ty with message v.
RetRat(q) == [k |-> "value", ty |-> "rat", v |-> q]
RetRoot(r) == [k |-> "value", ty |-> "root", v |-> r]
RetLin(l) == [k |-> "value", ty |-> "lin", v |-> l]
RetSeries(s) == [k |-> "value", ty |-> "series", v |-> s]
\* A Series whose values are multiples of square roots.
RetRootSeries(s) == [k |-> "value", ty |-> "rootseries", v |-> s]
\* A DataFrame: a sequence of rows, each a record of the columns and the date t
\* (from align_dataframes: its index, its columns and one Series per column).
RetFrame(f) == [k |-> "value", ty |-> "frame", v |-> f]
\* A float that is a linear form divided by a root (NaN in one form).
RetRatio(num, den) ==
    [k |-> "value", ty |-> "ratio",
     v |-> IF LinIsNaN(num) \/ RootIsNaN(den) THEN [num |-> LinNaN, den |-> RootNaN]
           ELSE [num |-> num, den |-> den]]
\* A dict of named results.
RetDict(d) == [k |-> "value", ty |-> "dict", v |-> d]
\* The Config object.
RetConfig(c) == [k |-> "value", ty |-> "config", v |-> c]
Raise(exc, msg) == [k |-> "raise", ty |-> exc, v |-> msg]
NoCall == [k |-> "none", ty |-> "none", v |-> "none"]
\* No call of the solver has been made.
NoResult == [x |-> <<>>, success |-> "none"]

\* An argument of type Optional[pd.Series]: None, or the Series s.
NoneSeries == [none |-> TRUE, s |-> <<>>]
Series(s) == [none |-> FALSE, s |-> s]

\* An argument of type Optional[float]: None, or the float r.
NoneFloat == [given |-> FALSE, r |-> Zero]
Float(r) == [given |-> TRUE, r |-> r]

\* ------------------------------------------------------------------- state

VARIABLES
    prices,          \* the prices the next call is made on (Optional[pd.Series];
                     \* a pd.DataFrame of one column per asset for portfolio.py)
    benchmark,       \* the benchmark series of the two-series calls
    dfs,             \* the fetched frames handed to align_dataframes (ticker -> df)
    metrics,         \* the dict handed to format_metrics (items in dict order)
    futures,         \* the futures of fetch_multiple, one per ticker submitted
    RISK_FREE_RATE,  \* the module global _RISK_FREE_RATE of analytics.py
    GLOBAL_CONFIG,   \* the module global _GLOBAL_CONFIG of config.py
    result,          \* what scipy's minimize returned to optimize_portfolio
    fn,              \* the function called last
    args,            \* the arguments it was given besides the series
    ret              \* what it returned or raised

vars == <<prices, benchmark, dfs, metrics, futures, RISK_FREE_RATE, GLOBAL_CONFIG, result, fn, args, ret>>

\* ---------------------------------------------------------------- config.py

\* Config(): the settings as Config.__init__ leaves them (cache_dir None is "None").
Config ==
    [risk_free_rate |-> Rat(4, 100), default_theme |-> "flux", default_period |-> "5y",
     cache_dir |-> "None", timeout |-> 30]

\* The properties of Config, each backed by the attribute "_" + its name.
Settings == {"risk_free_rate", "default_theme", "default_period", "cache_dir", "timeout"}
Backing(key) ==
    CASE key = "_risk_free_rate" -> "risk_free_rate"
      [] key = "_default_theme" -> "default_theme"
      [] key = "_default_period" -> "default_period"
      [] key = "_cache_dir" -> "cache_dir"
      [] key = "_timeout" -> "timeout"
      [] OTHER -> "none"
\* The attributes every Python object has (object's own), of which the callers
\* of the model name one.
ObjectAttributes == {"__doc__"}

\* hasattr(config, key): true of the properties, of the instance attributes
\* behind them and of the attributes of every object.
hasattr(config, key) == key \in Settings \/ Backing(key) # "none" \/ key \in ObjectAttributes

\* setattr(config, key, value): a property setter stores into its backing
\* attribute; an attribute of another name does not touch the settings.
setattr(config, key, value) ==
    IF key \in Settings THEN [config EXCEPT ![key] = value]
    ELSE IF Backing(key) # "none" THEN [config EXCEPT ![Backing(key)] = value]
    ELSE config

\* The setting a keyword stores into, "none" for a key that stores into none.
Target(key) == IF key \in Settings THEN key ELSE Backing(key)
\* set_config checking every key before it sets any: with an unknown key the
\* config is left as it was.
set_config_atomic(config, kwargs) ==
    LET unknown == {i \in DOMAIN kwargs : ~hasattr(config, kwargs[i].key)}
        first == CHOOSE i \in unknown : \A j \in unknown : i <= j
        last(s) == CHOOSE i \in DOMAIN kwargs :
                      /\ Target(kwargs[i].key) = s
                      /\ \A j \in DOMAIN kwargs : Target(kwargs[j].key) = s => j <= i
    IN  IF unknown # {}
        THEN [config |-> config,
              ret |-> Raise("AttributeError",
                            "Config has no attribute '" \o kwargs[first].key \o "'")]
        ELSE [config |-> [s \in Settings |->
                             IF \E i \in DOMAIN kwargs : Target(kwargs[i].key) = s
                             THEN kwargs[last(s)].value ELSE config[s]],
              ret |-> NoCall]
\* The loop of set_config over kwargs (a sequence of [key, value] in call
\* order): the config it leaves and what the call returns or raises.  The
\* keys before an unknown one have been set when the exception leaves.
RECURSIVE set_config_loop(_, _)
set_config_loop(config, kwargs) ==
    IF kwargs = <<>> THEN [config |-> config, ret |-> NoCall]
    ELSE LET key == Head(kwargs).key
             value == Head(kwargs).value
         IN  IF hasattr(config, key)
             THEN set_config_loop(setattr(config, key, value), Tail(kwargs))
             ELSE [config |-> config,
                   ret |-> Raise("AttributeError", "Config has no attribute '" \o key \o "'")]

\* ------------------------------------------------------------------ data.py

\* pd.DataFrame(): no column and no row.  A frame is its index (the dates in
\* row order), its column names in order and one Series (rows [t, v] on the
\* index) per column.
EmptyFrame == [index |-> <<>>, columns |-> <<>>, data |-> <<>>]

\* series.reindex(index): the values at the dates of index, NaN at a date
\* the series does not have.
reindex(series, index) == [i \in DOMAIN index |-> [t |-> index[i], v |-> At(series, index[i])]]

\* aligned[ticker] = series, for a ticker the frame does not have yet.  A
\* frame without rows takes the index of a non-empty series (the columns it
\* has are then missing in every row); a frame with rows keeps its index and
\* the series is reindexed to it.
SetColumn(aligned, ticker, series) ==
    LET index == IF Len(aligned.index) = 0 /\ Len(series) > 0
                 THEN [i \in DOMAIN series |-> series[i].t]
                 ELSE aligned.index
    IN  [index |-> index,
         columns |-> Append(aligned.columns, ticker),
         data |-> Append([j \in DOMAIN aligned.data |-> reindex(aligned.data[j], index)],
                         reindex(series, index))]

\* The rows kept by a frame whose dropna() keeps every row.
FrameDropna_none(aligned) == aligned
\* aligned.dropna(): the rows without a missing value in any column.
FrameDropna(aligned) ==
    LET keep == SelectSeq(aligned.index,
                          LAMBDA t : \A j \in DOMAIN aligned.data : ~IsNaN(At(aligned.data[j], t)))
    IN  [index |-> keep,
         columns |-> aligned.columns,
         data |-> [j \in DOMAIN aligned.data |-> reindex(aligned.data[j], keep)]]

\* The loop of align_dataframes over dfs.items(), a sequence of
\* [ticker, close] in the order of the dict, close being df[column].
RECURSIVE align_loop(_, _)
align_loop(aligned, items) ==
    IF items = <<>> THEN aligned
    ELSE align_loop(SetColumn(aligned, Head(items).ticker, Head(items).close), Tail(items))

align_dataframes(items) == RetFrame(FrameDropna(align_loop(EmptyFrame, items)))

\* ------------------------------------------------------------- portfolio.py

\* The default of optimize_portfolio's risk_free_rate parameter.
PortfolioDefaultRate == Rat(4, 100)
\* The annualisation factor of portfolio.py, a literal there.
PortfolioDays == 252

\* A price matrix (pd.DataFrame without missing values) is its column names in
\* order and its rows, each a sequence of one float per column.
Frame(columns, rows) == [columns |-> columns, rows |-> rows]

\* prices.pct_change().dropna(): the row-to-row returns of every column; the
\* first row, which has no predecessor, is dropped.
FrameReturns(p) ==
    [i \in 1 .. (Len(p.rows) - 1) |->
        [j \in DOMAIN p.columns |-> FSub(FDiv(p.rows[i + 1][j], p.rows[i][j]), One)]]
ColumnValues(rows, j) == [i \in DOMAIN rows |-> rows[i][j]]

\* returns.mean() * 252: one float per column, NaN when there is no return.
mean_returns(p) ==
    LET returns == FrameReturns(p)
    IN  [j \in DOMAIN p.columns |->
            FMul(mean(ColumnValues(returns, j)), Int2F(PortfolioDays))]

\* returns.cov() * 252: NaN in every cell when there are fewer than 2 returns.
cov_matrix(p) ==
    LET returns == FrameReturns(p)
    IN  [j \in DOMAIN p.columns |->
            [k \in DOMAIN p.columns |->
                FMul(cov(ColumnValues(returns, j), ColumnValues(returns, k)),
                     Int2F(PortfolioDays))]]

\* np.sum(a * b) and np.dot of two vectors.
Dot(xs, ys) == SeqSum([j \in DOMAIN xs |-> FMul(xs[j], ys[j])])
\* np.dot(cov_matrix, weights)
MatVec(m, w) == [j \in DOMAIN m |-> Dot(m[j], w)]

portfolio_performance(mean_ret, covm, weights) ==
    [port_return |-> Dot(mean_ret, weights),
     port_std |-> FSqrt(Dot(weights, MatVec(covm, weights)))]

neg_sharpe_ratio(mean_ret, covm, risk_free_rate, weights) ==
    LET perf == portfolio_performance(mean_ret, covm, weights)
    IN  FDivRoot(FNeg(FSub(perf.port_return, risk_free_rate)), perf.port_std)

portfolio_volatility(mean_ret, covm, weights) ==
    portfolio_performance(mean_ret, covm, weights).port_std

portfolio_return(mean_ret, covm, weights) ==
    Root(FNeg(portfolio_performance(mean_ret, covm, weights).port_return), One)

\* The function handed to minimize for a known objective, at weights.
ObjectiveAt(objective, mean_ret, covm, risk_free_rate, weights) ==
    IF objective = "sharpe" THEN neg_sharpe_ratio(mean_ret, covm, risk_free_rate, weights)
    ELSE IF objective = "min_vol" THEN portfolio_volatility(mean_ret, covm, weights)
    ELSE portfolio_return(mean_ret, covm, weights)

\* a/b < c/d for integers a, c >= 0 and b, d > 0, by their continued
\* fractions (no product is formed, whatever the size of the four).
RECURSIVE FracLt(_, _, _, _)
FracLt(a, b, c, d) ==
    IF a \div b # c \div d THEN a \div b < c \div d
    ELSE IF a % b = 0 THEN c % d # 0
    ELSE IF c % d = 0 THEN FALSE
    ELSE FracLt(d, c % d, b, a % b)
\* |r| < |s| for two roots that are neither zero nor NaN: with k = |r.c / s.c|,
\* k * (r.q / s.q) < 1 / k.
RootAbsLt(r, s) ==
    IF IsInf(r.c) THEN FALSE
    ELSE IF IsInf(s.c) THEN TRUE
    ELSE LET k == FAbs(FDiv(r.c, s.c))
             m == FMul(k, FDiv(r.q, s.q))
         IN  FracLt(m.n, m.d, k.d, k.n)
\* r < s for two roots, as the float comparison decides it.
RootLt(r, s) ==
    /\ ~RootIsNaN(r) /\ ~RootIsNaN(s)
    /\ \/ Sign(r.c.n) < Sign(s.c.n)
       \/ Sign(r.c.n) > 0 /\ Sign(s.c.n) > 0 /\ RootAbsLt(r, s)
       \/ Sign(r.c.n) < 0 /\ Sign(s.c.n) < 0 /\ RootAbsLt(s, r)

\* [1.0 / num_assets] * num_assets, for num_assets > 0.
initial_weights(num_assets) == [j \in 1 .. num_assets |-> Rat(1, num_assets)]

\* bounds and constraints: every weight in [0, 1], the weights summing to 1.
InBounds(x) == \A j \in DOMAIN x : FLe(Zero, x[j]) /\ FLe(x[j], One)
constraints(x) == FSub(SeqSum(x), One) = Zero

\* The points the solver can stop at: the grid of step 1 / WeightSteps in the
\* box of the bounds, and the point it started from.
Iterates(num_assets) ==
    [1 .. num_assets -> {Rat(k, WeightSteps) : k \in 0 .. WeightSteps}]
        \cup {initial_weights(num_assets)}

\* scipy.optimize.minimize(fun, initial_weights, bounds=bounds,
\* constraints=constraints), a library outside the repository: every result
\* it can hand back.  With success it is a point within the bounds that
\* meets the constraint and where fun is not worse than at the start; without
\* success (iteration limit, failed line search, a non-finite fun) x is the
\* last iterate, on which the library promises nothing.
minimize(objective, mean_ret, covm, risk_free_rate, x0) ==
    LET at(x) == ObjectiveAt(objective, mean_ret, covm, risk_free_rate, x)
        start == at(x0)
    IN  {[x |-> x, success |-> TRUE] :
            x \in {y \in Iterates(Len(x0)) :
                      InBounds(y) /\ constraints(y) /\ ~RootLt(start, at(y))}}
        \cup {[x |-> x, success |-> FALSE] : x \in Iterates(Len(x0))}

\* dict(zip(prices.columns, weights))
WeightsDict(columns, weights) ==
    [c \in {columns[j] : j \in DOMAIN columns} |->
        weights[CHOOSE j \in DOMAIN columns : columns[j] = c]]

Objectives == {"sharpe", "min_vol", "max_return"}

\* optimize_portfolio up to the call of the solver: the exception it leaves
\* with, if any.  No line looks at the number of assets or of rows; an empty
\* frame fails in 1.0 / num_assets.
optimize_portfolio_before(p, objective) ==
    IF Len(p.columns) = 0 THEN Raise("ZeroDivisionError", "float division by zero")
    ELSE IF objective \notin Objectives THEN Raise("ValueError", "Unknown objective: " \o objective)
    ELSE NoCall

\* optimize_portfolio refusing a point that is outside the bounds or off the
\* constraint.
optimize_portfolio_after_checked(columns, mean_ret, covm, risk_free_rate, opt_weights) ==
    LET perf == portfolio_performance(mean_ret, covm, opt_weights)
    IN  IF ~(InBounds(opt_weights) /\ constraints(opt_weights))
        THEN Raise("OptimizationError", "solver did not converge")
        ELSE RetDict([return |-> perf.port_return,
                      volatility |-> perf.port_std,
                      sharpe_ratio |-> FDivRoot(FSub(perf.port_return, risk_free_rate),
                                                perf.port_std),
                      weights |-> WeightsDict(columns, opt_weights)])
\* optimize_portfolio from result.x on: the point is used as it is, whatever
\* result.success says.
optimize_portfolio_after(columns, mean_ret, covm, risk_free_rate, opt_weights) ==
    LET perf == portfolio_performance(mean_ret, covm, opt_weights)
    IN  RetDict([return |-> perf.port_return,
                 volatility |-> perf.port_std,
                 sharpe_ratio |-> FDivRoot(FSub(perf.port_return, risk_free_rate), perf.port_std),
                 weights |-> WeightsDict(columns, opt_weights)])

equal_weight_portfolio(p) ==
    LET num_assets == Len(p.columns)
    IN  IF num_assets = 0 THEN Raise("ZeroDivisionError", "float division by zero")
        ELSE LET weights == initial_weights(num_assets)
                 perf == portfolio_performance(mean_returns(p), cov_matrix(p), weights)
             IN  RetDict([return |-> perf.port_return,
                          volatility |-> perf.port_std,
                          weights |-> WeightsDict(p.columns, weights)])

\* -------------------------------------------------------------- analytics.py

TRADING_DAYS_PER_YEAR == 252

\* np.sqrt(TRADING_DAYS_PER_YEAR)
SqrtTradingDays == FSqrt(Int2F(TRADING_DAYS_PER_YEAR))

\* _RISK_FREE_RATE as the module is imported.
InitialRiskFreeRate == Rat(4, 100)

\* _validate_prices with its length test off by one (len(prices) < 1).
validate_short(p) ==
    IF p.none \/ Len(p.s) = 0
    THEN Raise("FluxComputeError", "Input series 'prices' is empty.")
    ELSE IF Len(p.s) < 1
    THEN Raise("FluxComputeError", "Input series 'prices' must have at least 2 data points.")
    ELSE NoCall
\* _validate_prices: the exception it raises, or no outcome when it returns.
validate_prices(p) ==
    IF p.none \/ Len(p.s) = 0
    THEN Raise("FluxComputeError", "Input series 'prices' is empty.")
    ELSE IF Len(p.s) < 2
    THEN Raise("FluxComputeError", "Input series 'prices' must have at least 2 data points.")
    ELSE NoCall

daily_returns(p) ==
    LET chk == validate_prices(p)
    IN  IF chk.k = "raise" THEN chk
        ELSE RetSeries(dropna(pct_change(p.s)))

\* cumulative_returns without the final "- 1".
cumulative_returns_raw(p) ==
    LET r == daily_returns(p)
    IN  IF r.k = "raise" THEN r
        ELSE RetSeries(cumprod(AddScalar(r.v, One)))
cumulative_returns(p) ==
    LET r == daily_returns(p)
    IN  IF r.k = "raise" THEN r
        ELSE RetSeries(AddScalar(cumprod(AddScalar(r.v, One)), FNeg(One)))

\* prices.iloc[-1] / prices.iloc[0] - 1, with no validation of its own.
total_return(p) ==
    IF p.none THEN Raise("AttributeError", "'NoneType' object has no attribute 'iloc'")
    ELSE IF Len(p.s) = 0 THEN Raise("IndexError", "single positional indexer is out-of-bounds")
    ELSE RetRat(FSub(FDiv(p.s[Len(p.s)].v, p.s[1].v), One))

\* The power taken with the exponent years in place of 1 / years.
PowMinusOne_years(base, days) ==
    IF IsNaN(base) \/ base.n < 0 THEN LinNaN
    ELSE IF base = One THEN LinConst(Zero)
    ELSE IF base = Zero THEN LinConst(FNeg(One))
    ELSE LinAdd(LinSym(base, Rat(100 * days, 36525)), LinConst(FNeg(One)))
\* (1 + total_ret) ** (1 / years) - 1 for years = days / 365.25.
PowMinusOne(base, days) ==
    IF IsNaN(base) \/ base.n < 0 THEN LinNaN
    ELSE IF base = One THEN LinConst(Zero)
    ELSE IF base = Zero THEN LinConst(FNeg(One))
    ELSE LinAdd(LinSym(base, Rat(36525, 100 * days)), LinConst(FNeg(One)))

\* cagr without its call of _validate_prices.
cagr_unvalidated(p) ==
    IF p.none THEN Raise("AttributeError", "'NoneType' object has no attribute 'index'")
    ELSE IF Len(p.s) = 0 THEN Raise("IndexError", "index -1 is out of bounds for axis 0 with size 0")
    ELSE LET total_days == p.s[Len(p.s)].t - p.s[1].t
         IN  IF total_days <= 0 THEN RetLin(LinConst(Zero))
             ELSE RetLin(PowMinusOne(FAdd(One, total_return(p).v), total_days))
cagr(p) ==
    LET chk == validate_prices(p)
    IN  IF chk.k = "raise" THEN chk
        ELSE LET total_days == p.s[Len(p.s)].t - p.s[1].t
             IN  IF total_days <= 0 THEN RetLin(LinConst(Zero))
                 ELSE RetLin(PowMinusOne(FAdd(One, total_return(p).v), total_days))

volatility(p, annualize) ==
    LET r == daily_returns(p)
    IN  IF r.k = "raise" THEN r
        ELSE LET vol == std(Values(r.v))
             IN  RetRoot(IF annualize THEN RootMul(vol, SqrtTradingDays) ELSE vol)

\* (prices - cummax) / cummax
Drawdown(s) ==
    LET cm == cummax(s)
    IN  [i \in DOMAIN s |-> [t |-> s[i].t, v |-> FDiv(FSub(s[i].v, cm[i].v), cm[i].v)]]

max_drawdown(p) ==
    IF p.none THEN Raise("AttributeError", "'NoneType' object has no attribute 'cummax'")
    ELSE RetRat(SeqMin(Values(Drawdown(p.s))))

drawdown_series(p) ==
    IF p.none THEN Raise("AttributeError", "'NoneType' object has no attribute 'cummax'")
    ELSE RetSeries(Drawdown(p.s))

\* The default taken for every rate that is falsy (`risk_free_rate or default`),
\* the rate 0.0 included.
EffectiveRate_falsy(risk_free_rate) ==
    IF risk_free_rate.given /\ risk_free_rate.r # Zero THEN risk_free_rate.r ELSE RISK_FREE_RATE
\* risk_free_rate if given, else the global default.
EffectiveRate(risk_free_rate) ==
    IF risk_free_rate.given THEN risk_free_rate.r ELSE RISK_FREE_RATE

\* returns - risk_free_rate / TRADING_DAYS_PER_YEAR
ExcessReturns(xs, rf) ==
    [i \in DOMAIN xs |-> FSub(xs[i], FDiv(rf, Int2F(TRADING_DAYS_PER_YEAR)))]

sharpe_ratio(p, risk_free_rate) ==
    LET rf == EffectiveRate(risk_free_rate)
        r == daily_returns(p)
    IN  IF r.k = "raise" THEN r
        ELSE LET returns == Values(r.v)
                 excess_returns == ExcessReturns(returns, rf)
             IN  IF RootEqZero(std(returns)) THEN RetRoot(RootZero)
                 ELSE RetRoot(RootMul(FDivRoot(mean(excess_returns), std(returns)),
                                      SqrtTradingDays))

sortino_ratio(p, risk_free_rate) ==
    LET rf == EffectiveRate(risk_free_rate)
        r == daily_returns(p)
    IN  IF r.k = "raise" THEN r
        ELSE LET returns == Values(r.v)
                 excess_returns == ExcessReturns(returns, rf)
                 downside_returns == SelectSeq(returns, LAMBDA x : FLt(x, Zero))
             IN  IF Len(downside_returns) = 0 \/ RootEqZero(std(downside_returns))
                 THEN RetRoot(RootZero)
                 ELSE RetRoot(RootMul(FDivRoot(mean(excess_returns), std(downside_returns)),
                                      SqrtTradingDays))

\* calmar_ratio dividing by the drawdown itself, not by its absolute value.
calmar_ratio_signed(p) ==
    LET ann_return == cagr(p)
    IN  IF ann_return.k = "raise" THEN ann_return
        ELSE LET mdd == max_drawdown(p).v
             IN  IF FEq(mdd, Zero) THEN RetLin(LinConst(Zero))
                 ELSE RetLin(LinScale(ann_return.v, FDiv(One, mdd)))
calmar_ratio(p) ==
    LET ann_return == cagr(p)
    IN  IF ann_return.k = "raise" THEN ann_return
        ELSE LET mdd == FAbs(max_drawdown(p).v)
             IN  IF FEq(mdd, Zero) THEN RetLin(LinConst(Zero))
                 ELSE RetLin(LinScale(ann_return.v, FDiv(One, mdd)))

\* The two return series paired row by row, whatever their dates.
AlignedByPosition(returns, bench_returns) ==
    LET n == IF Len(returns) < Len(bench_returns) THEN Len(returns) ELSE Len(bench_returns)
    IN  [i \in 1 .. n |-> [t |-> returns[i].t, asset |-> returns[i].v, bench |-> bench_returns[i].v]]
\* The frame of the two return series on their common dates.
AlignedReturns(returns, bench_returns) == dropna_rows(DataFrame(returns, bench_returns))

beta(p, b) ==
    LET r == daily_returns(p)
        br == daily_returns(b)
    IN  IF r.k = "raise" THEN r
        ELSE IF br.k = "raise" THEN br
        ELSE LET aligned == AlignedReturns(r.v, br.v)
                 cov_val == cov(Column(aligned, "asset"), Column(aligned, "bench"))
                 var_val == var(Column(aligned, "bench"))
             IN  RetRat(IF FNe(var_val, Zero) THEN FDiv(cov_val, var_val) ELSE Zero)

alpha(p, b, risk_free_rate) ==
    LET rf == EffectiveRate(risk_free_rate)
        asset_return == cagr(p)
        bench_return == cagr(b)
        bt == beta(p, b)
    IN  IF asset_return.k = "raise" THEN asset_return
        ELSE IF bench_return.k = "raise" THEN bench_return
        ELSE IF bt.k = "raise" THEN bt
        ELSE RetLin(LinSub(asset_return.v,
                           LinAdd(LinConst(rf),
                                  LinScale(LinSub(bench_return.v, LinConst(rf)), bt.v))))

\* The values in increasing order.
RECURSIVE SortValues(_)
SortValues(xs) ==
    IF Len(xs) = 0 THEN <<>>
    ELSE LET i == CHOOSE j \in DOMAIN xs : \A k \in DOMAIN xs : FLe(xs[j], xs[k])
         IN  <<xs[i]>> \o SortValues(SubSeq(xs, 1, i - 1) \o SubSeq(xs, i + 1, Len(xs)))

\* The percentile as the order statistic below the position, not interpolated.
percentile_lower(xs, q) ==
    IF Len(xs) = 0 THEN NaN
    ELSE LET a == SortValues(xs)
             pos == FMul(FDiv(q, Int2F(100)), Int2F(Len(xs) - 1))
             lo == pos.n \div pos.d
         IN  a[lo + 1]
\* np.percentile(xs, q), q a float in percent: the linear interpolation between
\* the two order statistics around the position q / 100 * (n - 1).
percentile(xs, q) ==
    IF Len(xs) = 0 THEN NaN
    ELSE LET a == SortValues(xs)
             pos == FMul(FDiv(q, Int2F(100)), Int2F(Len(xs) - 1))
             lo == pos.n \div pos.d
             frac == FSub(pos, Int2F(lo))
         IN  IF frac = Zero THEN a[lo + 1]
             ELSE FAdd(a[lo + 1], FMul(FSub(a[lo + 2], a[lo + 1]), frac))

value_at_risk(p, confidence) ==
    LET r == daily_returns(p)
        q == FMul(FSub(One, confidence), Int2F(100))
    IN  IF r.k = "raise" THEN r
        ELSE IF FLt(q, Zero) \/ FGt(q, Int2F(100))
        THEN Raise("ValueError", "Percentiles must be in the range [0, 100]")
        ELSE RetRat(percentile(Values(r.v), q))

\* conditional_va_risk over the returns strictly below the VaR.
conditional_va_risk_below(p, confidence) ==
    LET r == daily_returns(p)
        vr == value_at_risk(p, confidence)
    IN  IF r.k = "raise" THEN r
        ELSE IF vr.k = "raise" THEN vr
        ELSE RetRat(mean(SelectSeq(Values(r.v), LAMBDA x : FLt(x, vr.v))))
conditional_va_risk(p, confidence) ==
    LET r == daily_returns(p)
        vr == value_at_risk(p, confidence)
    IN  IF r.k = "raise" THEN r
        ELSE IF vr.k = "raise" THEN vr
        ELSE RetRat(mean(SelectSeq(Values(r.v), LAMBDA x : FLe(x, vr.v))))

omega_ratio(p, threshold) ==
    LET r == daily_returns(p)
    IN  IF r.k = "raise" THEN r
        ELSE LET returns == Values(r.v)
                 excess == [i \in DOMAIN returns |-> FSub(returns[i], threshold)]
                 upside == SeqSum(SelectSeq(excess, LAMBDA x : FGt(x, Zero)))
                 downside == FNeg(SeqSum(SelectSeq(excess, LAMBDA x : FLt(x, Zero))))
             IN  RetRat(IF FNe(downside, Zero) THEN FDiv(upside, downside) ELSE Zero)

\* win_rate counting the days that did not lose (returns >= 0).
win_rate_nonneg(p) ==
    LET r == daily_returns(p)
    IN  IF r.k = "raise" THEN r
        ELSE LET returns == Values(r.v)
             IN  RetRat(IF Len(returns) > 0
                        THEN Rat(Len(SelectSeq(returns, LAMBDA x : FLe(Zero, x))), Len(returns))
                        ELSE Zero)
win_rate(p) ==
    LET r == daily_returns(p)
    IN  IF r.k = "raise" THEN r
        ELSE LET returns == Values(r.v)
             IN  RetRat(IF Len(returns) > 0
                        THEN Rat(Len(SelectSeq(returns, LAMBDA x : FGt(x, Zero))), Len(returns))
                        ELSE Zero)

\* np.log(prices / prices.shift(1)).dropna(): the rows keep their dates, and a
\* row's v is the price ratio whose logarithm the float is.
LogReturns(s) ==
    dropna([i \in DOMAIN s |->
               [t |-> s[i].t, v |-> IF i = 1 THEN NaN ELSE FDiv(s[i].v, s[i - 1].v)]])

\* np.subtract(a, b) of two Series: the library aligns them on the index
\* first, so a row of the result is a[t] - b[t] on a date both have and missing
\* elsewhere.  The rows are logarithms, so the difference is the logarithm of
\* the quotient.
Subtract(a, b) ==
    LET T == Index(a) \cup Index(b)
        ts == SortedSeq(T)
    IN  [i \in DOMAIN ts |->
            [t |-> ts[i],
             v |-> IF ts[i] \in Index(a) /\ ts[i] \in Index(b)
                   THEN FDiv(At(a, ts[i]), At(b, ts[i])) ELSE NaN]]

\* np.std of a Series of logarithms (ddof = 0, missing rows skipped): missing
\* for no row, the float 0.0 when the rows are equal, else a positive
\* irrational kept as the rows it is taken of.
StdOfLogs(xs) ==
    IF Len(xs) = 0 THEN [k |-> "nan", of |-> <<>>]
    ELSE IF \A i \in DOMAIN xs : xs[i] = xs[1] THEN [k |-> "zero", of |-> <<>>]
    ELSE [k |-> "std", of |-> xs]

\* tau[lag] = np.sqrt(np.std(np.subtract(returns[lag:], returns[:-lag])))
Tau(returns, lag) ==
    [sqrt_of |-> StdOfLogs(Values(Subtract(SubSeq(returns, lag + 1, Len(returns)),
                                            SubSeq(returns, 1, Len(returns) - lag))))]

\* hurst_exponent: 0.5 when the series is shorter than 2 * max_lag, and 0.5 when
\* np.polyfit raises (it does for no lags at all, range(2, max_lag) being empty);
\* otherwise twice the slope fitted through (log lag, log tau[lag]), which is
\* kept as the fit's inputs.
hurst_exponent(p, max_lag) ==
    IF p.none THEN Raise("TypeError", "object of type 'NoneType' has no len()")
    ELSE IF Len(p.s) < max_lag * 2 THEN RetRat(Rat(1, 2))
    ELSE IF max_lag <= 2 THEN RetRat(Rat(1, 2))
    ELSE LET returns == LogReturns(p.s)
             lags == 2 .. (max_lag - 1)
         IN  [k |-> "value", ty |-> "fit",
              v |-> [lags |-> lags, prices |-> p.s,
                     tau |-> [lag \in lags |-> Tau(returns, lag)]]]

tracking_error(p, b, annualize) ==
    LET r == daily_returns(p)
        br == daily_returns(b)
    IN  IF r.k = "raise" THEN r
        ELSE IF br.k = "raise" THEN br
        ELSE LET aligned == AlignedReturns(r.v, br.v)
                 active_returns == [i \in DOMAIN aligned |->
                                       FSub(aligned[i].asset, aligned[i].bench)]
                 te == std(active_returns)
             IN  RetRoot(IF annualize THEN RootMul(te, SqrtTradingDays) ELSE te)

information_ratio(p, b) ==
    LET asset_return == cagr(p)
        bench_return == cagr(b)
        te == tracking_error(p, b, TRUE)
    IN  IF asset_return.k = "raise" THEN asset_return
        ELSE IF bench_return.k = "raise" THEN bench_return
        ELSE IF te.k = "raise" THEN te
        ELSE IF RootEqZero(te.v) THEN RetRatio(LinConst(Zero), FSqrt(One))
        ELSE RetRatio(LinSub(asset_return.v, bench_return.v), te.v)

\* The eleven entries compute_metrics always computes, in the order of the dict.
BaseKeys ==
    <<"total_return", "cagr", "volatility", "max_drawdown", "sharpe_ratio", "sortino_ratio",
      "calmar_ratio", "win_rate", "var_95", "cvar_95", "omega">>
\* The four it adds when benchmark_prices is not None.
BenchmarkKeys == <<"beta", "alpha", "tracking_error", "info_ratio">>

\* The call behind each entry, with the rate compute_metrics resolved.
MetricCall(key, p, b, rf) ==
    CASE key = "total_return" -> total_return(p)
      [] key = "cagr" -> cagr(p)
      [] key = "volatility" -> volatility(p, TRUE)
      [] key = "max_drawdown" -> max_drawdown(p)
      [] key = "sharpe_ratio" -> sharpe_ratio(p, Float(rf))
      [] key = "sortino_ratio" -> sortino_ratio(p, Float(rf))
      [] key = "calmar_ratio" -> calmar_ratio(p)
      [] key = "win_rate" -> win_rate(p)
      [] key = "var_95" -> value_at_risk(p, Rat(95, 100))
      [] key = "cvar_95" -> conditional_va_risk(p, Rat(95, 100))
      [] key = "omega" -> omega_ratio(p, Zero)
      [] key = "beta" -> beta(p, b)
      [] key = "alpha" -> alpha(p, b, Float(rf))
      [] key = "tracking_error" -> tracking_error(p, b, TRUE)
      [] key = "info_ratio" -> information_ratio(p, b)

\* The first exception among the results rs (a sequence, in call order), or
\* NoCall if none of them raised.
RECURSIVE FirstRaise(_)
FirstRaise(rs) ==
    IF rs = <<>> THEN NoCall
    ELSE IF Head(rs).k = "raise" THEN Head(rs)
    ELSE FirstRaise(Tail(rs))

\* What the dict construction leaves: the exception of the first call that
\* raises, else the entries (calls[i] is the outcome of the call behind keys[i]).
Entries(keys, calls) ==
    IF FirstRaise(calls).k = "raise" THEN FirstRaise(calls)
    ELSE RetDict([key \in {keys[i] : i \in DOMAIN keys} |->
                     calls[CHOOSE i \in DOMAIN keys : keys[i] = key]])

\* The dict compute_metrics builds once the rate is resolved.
MetricsDict(p, b, rf) ==
    LET keys == IF b.none THEN BaseKeys ELSE BaseKeys \o BenchmarkKeys
    IN  Entries(keys, [i \in DOMAIN keys |-> MetricCall(keys[i], p, b, rf)])

\* compute_metrics that computes every entry at the global default rate.
compute_metrics_ignoring_rate(p, b, risk_free_rate) ==
    LET chk == validate_prices(p)
    IN  IF chk.k = "raise" THEN chk ELSE MetricsDict(p, b, RISK_FREE_RATE)
compute_metrics(p, b, risk_free_rate) ==
    LET chk == validate_prices(p)
    IN  IF chk.k = "raise" THEN chk ELSE MetricsDict(p, b, EffectiveRate(risk_free_rate))

\* f"{x:.2f}": the float rounded to the nearest hundredth (a tie, which a
\* binary float can be, goes to the even neighbour), in fixed-point notation
\* with the sign of x; "nan", "inf" and "-inf" for the non-finite floats.
Fixed2(x) ==
    IF IsNaN(x) THEN "nan"
    ELSE IF IsInf(x) THEN (IF x.n < 0 THEN "-inf" ELSE "inf")
    ELSE LET a == Abs(x.n) * 100
             q == a \div x.d
             r == a % x.d
             h == IF 2 * r > x.d \/ (2 * r = x.d /\ q % 2 = 1) THEN q + 1 ELSE q
             frac == h % 100
         IN  (IF x.n < 0 THEN "-" ELSE "") \o ToString(h \div 100) \o "."
                 \o (IF frac < 10 THEN "0" ELSE "") \o ToString(frac)
\* f"{x * 100:.2f}%"
Percent2(x) == Fixed2(FMul(x, Int2F(100))) \o "%"

\* The formatter table with alpha rendered as a plain number.
formatters_alpha_plain ==
    [total_return |-> "percent", cagr |-> "percent", volatility |-> "percent",
     max_drawdown |-> "percent", sharpe_ratio |-> "fixed", sortino_ratio |-> "fixed",
     calmar_ratio |-> "fixed", beta |-> "fixed", alpha |-> "fixed",
     tracking_error |-> "percent", info_ratio |-> "fixed"]
\* The formatter table of format_metrics: which of the two lambdas a key has.
formatters ==
    [total_return |-> "percent", cagr |-> "percent", volatility |-> "percent",
     max_drawdown |-> "percent", sharpe_ratio |-> "fixed", sortino_ratio |-> "fixed",
     calmar_ratio |-> "fixed", beta |-> "fixed", alpha |-> "percent",
     tracking_error |-> "percent", info_ratio |-> "fixed"]

\* formatters.get(k, lambda x: f"{x:.2f}")(v)
Formatted(k, v) ==
    LET f == IF k \in DOMAIN formatters THEN formatters[k] ELSE "fixed"
    IN  IF f = "percent" THEN Percent2(v) ELSE Fixed2(v)

\* format_metrics(metrics) for a dict of floats, the items in dict order: a
\* new dict, built by a comprehension over metrics.items().
format_metrics(m) ==
    RetDict([i \in DOMAIN m |-> [key |-> m[i].key, value |-> Formatted(m[i].key, m[i].value)]])

\* ------------------------------------------------- data.py and screener.py

\* The future executor.submit(fetch, t, ...) returns: the worker thread is
\* still in fetch, or fetch has raised FluxDataError, or it has returned a
\* frame, of which the Close column is kept.
Running(ticker) == [ticker |-> ticker, state |-> "running", raised |-> FALSE, close |-> <<>>]
Failed(ticker) == [ticker |-> ticker, state |-> "done", raised |-> TRUE, close |-> <<>>]
Fetched(ticker, close) == [ticker |-> ticker, state |-> "done", raised |-> FALSE, close |-> close]

\* {t: f.result() for t, f in futures.items()}: result() re-raises what the
\* fetch raised, so the first failed future, in the order of the tickers,
\* ends the comprehension and fetch_multiple.
RECURSIVE fetch_multiple_result(_)
fetch_multiple_result(fs) ==
    IF fs = <<>> THEN NoCall
    ELSE IF Head(fs).raised
    THEN Raise("FluxDataError", "Failed to fetch " \o Head(fs).ticker)
    ELSE fetch_multiple_result(Tail(fs))

\* The body of the loop for one ticker: compute_metrics(df["Close"]).
ScreenMetrics(f) == compute_metrics(Series(f.close), NoneSeries, NoneFloat)

\* The outcome of compute_metrics for each future, in dict order.
MetricRows(fs) ==
    [i \in DOMAIN fs |-> [ticker |-> fs[i].ticker, metrics |-> ScreenMetrics(fs[i])]]
\* `except Exception: continue` drops a ticker whose compute_metrics raised;
\* the others get a row of `results`.
Kept(ms) ==
    LET kept == SelectSeq(ms, LAMBDA r : r.metrics.k # "raise")
    IN  [i \in DOMAIN kept |-> [ticker |-> kept[i].ticker, metrics |-> kept[i].metrics.v]]
\* results after the loop of screen_tickers.
ScreenRows(fs) == Kept(MetricRows(fs))

\* sort_values(sort_by, ascending=False) with sort_by = "sharpe_ratio": row a
\* comes before row b when its ratio is greater, the missing ratios last.
SortsBefore(a, b) ==
    LET x == a.metrics["sharpe_ratio"].v
        y == b.metrics["sharpe_ratio"].v
    IN  IF RootIsNaN(x) THEN FALSE
        ELSE IF RootIsNaN(y) THEN TRUE
        ELSE RootLt(y, x)
\* The orders sort_values may leave the rows in (perm[i] is the row that comes
\* i-th): no row after one it sorts before; equal keys in either order.
SortOrders(rows) ==
    {perm \in Permutations(DOMAIN rows) :
        \A i, j \in DOMAIN rows : i < j => ~SortsBefore(rows[perm[j]], rows[perm[i]])}
\* What screen_tickers ends with: the exception of fetch_multiple, or the
\* rows indexed by ticker and sorted.
ScreenOutcomes(data, rows) ==
    IF data.k = "raise" THEN {data}
    ELSE {RetFrame([i \in DOMAIN rows |-> rows[perm[i]]]) : perm \in SortOrders(rows)}

\* ---------------------------------------------------- analytics.py, rolling

\* The window of rows i-window+1 .. i of the values xs, empty if it starts
\* before the first row.
Trailing(xs, i, window) ==
    IF window >= 1 /\ i >= window THEN SubSeq(xs, i - window + 1, i) ELSE <<>>

\* A rolling window yields a value only when it holds `window` observations
\* that are not missing (min_periods defaults to the window).
Complete(w, window) == window >= 1 /\ Len(w) = window /\ \A j \in DOMAIN w : ~IsNaN(w[j])

\* Series.rolling(window=window).mean()
rolling_mean(s, window) ==
    LET xs == [i \in DOMAIN s |-> s[i].v]
    IN  [i \in DOMAIN s |->
            [t |-> s[i].t,
             v |-> LET w == Trailing(xs, i, window)
                   IN  IF Complete(w, window) THEN mean(w) ELSE NaN]]

\* Series.rolling(window=window).std(): sample deviation, NaN for a window of 1.
rolling_std(s, window) ==
    LET xs == [i \in DOMAIN s |-> s[i].v]
    IN  [i \in DOMAIN s |->
            [t |-> s[i].t,
             v |-> LET w == Trailing(xs, i, window)
                   IN  IF Complete(w, window) THEN std(w) ELSE RootNaN]]

\* A Series of roots times np.sqrt(TRADING_DAYS_PER_YEAR).
Annualized(s) == [i \in DOMAIN s |-> [t |-> s[i].t, v |-> RootMul(s[i].v, SqrtTradingDays)]]

rolling_volatility(p, window, annualize) ==
    LET r == daily_returns(p)
    IN  IF r.k = "raise" THEN r
        ELSE LET roll_vol == rolling_std(r.v, window)
             IN  RetRootSeries(IF annualize THEN Annualized(roll_vol) ELSE roll_vol)

rolling_sharpe(p, window, risk_free_rate) ==
    LET rf == EffectiveRate(risk_free_rate)
        r == daily_returns(p)
    IN  IF r.k = "raise" THEN r
        ELSE LET excess_returns == AddScalar(r.v, FNeg(FDiv(rf, Int2F(TRADING_DAYS_PER_YEAR))))
                 roll_mean == rolling_mean(excess_returns, window)
                 roll_std == rolling_std(r.v, window)
             IN  RetRootSeries(Annualized(
                     [i \in DOMAIN r.v |->
                         [t |-> r.v[i].t, v |-> FDivRoot(roll_mean[i].v, roll_std[i].v)]]))

\* The loop of rolling_beta: row i (counted from 0) is NaN for i < window and
\* else cov / var over aligned.iloc[i - window : i], the `window` rows BEFORE
\* row i; with rows counted from 1 these are rows k - window .. k - 1 of row k.
rolling_beta(p, b, window) ==
    LET r == daily_returns(p)
        br == daily_returns(b)
    IN  IF r.k = "raise" THEN r
        ELSE IF br.k = "raise" THEN br
        ELSE LET aligned == AlignedReturns(r.v, br.v)
             IN  RetSeries(
                     [k \in DOMAIN aligned |->
                         [t |-> aligned[k].t,
                          v |-> IF k - 1 < window THEN NaN
                                ELSE LET w == SubSeq(aligned, k - window, k - 1)
                                         cov_val == cov(Column(w, "asset"), Column(w, "bench"))
                                         var_val == var(Column(w, "bench"))
                                     IN  IF FNe(var_val, Zero) THEN FDiv(cov_val, var_val)
                                         ELSE NaN]])

\* z_score works on the prices themselves, validated under its own name.
z_score(p, window) ==
    IF p.none \/ Len(p.s) = 0
    THEN Raise("FluxComputeError", "Input series 'prices (z-score)' is empty.")
    ELSE IF Len(p.s) < 2
    THEN Raise("FluxComputeError",
               "Input series 'prices (z-score)' must have at least 2 data points.")
    ELSE LET roll_mean == rolling_mean(p.s, window)
             roll_std == rolling_std(p.s, window)
         IN  RetRootSeries(
                 [i \in DOMAIN p.s |->
                     [t |-> p.s[i].t,
                      v |-> FDivRoot(FSub(p.s[i].v, roll_mean[i].v), roll_std[i].v)]])

\* The value of a Series of roots on date t, NaN where it has no such date.
RootAt(s, t) ==
    IF t \in Index(s) THEN (CHOOSE e \in {s[i] : i \in DOMAIN s} : e.t = t).v ELSE RootNaN

\* detect_regime.  The two label Series are created on prices.index and filled
\* through boolean masks.  The trend masks compare the moving averages, which
\* live on prices.index.  The volatility masks compare roll_vol, which lives on
\* the index of daily_returns: pandas refuses a boolean Series as an indexer
\* when its index does not cover the index of the Series it is applied to
\* (IndexingError).  A row neither mask selects keeps the label NaN ("nan").
detect_regime(p, short_window, long_window, vol_window, vol_threshold) ==
    IF p.none THEN Raise("AttributeError", "'NoneType' object has no attribute 'rolling'")
    ELSE
    LET short_ma == rolling_mean(p.s, short_window)
        long_ma == rolling_mean(p.s, long_window)
        r == daily_returns(p)
    IN  IF r.k = "raise" THEN r
        ELSE
        LET roll_vol == Annualized(rolling_std(r.v, vol_window))
            trend == [i \in DOMAIN p.s |->
                         IF FGt(short_ma[i].v, long_ma[i].v) THEN "uptrend"
                         ELSE IF FLe(short_ma[i].v, long_ma[i].v) THEN "downtrend"
                         ELSE "nan"]
        IN  IF ~(Index(p.s) \subseteq Index(roll_vol))
            THEN Raise("IndexingError", "Unalignable boolean Series provided as indexer")
            ELSE RetFrame(
                     [i \in DOMAIN p.s |->
                         [t |-> p.s[i].t,
                          trend |-> trend[i],
                          volatility_regime |->
                              IF RootGt(RootAt(roll_vol, p.s[i].t), vol_threshold) THEN "high_vol"
                              ELSE IF RootLe(RootAt(roll_vol, p.s[i].t), vol_threshold) THEN "low_vol"
                              ELSE "nan",
                          short_ma |-> short_ma[i].v,
                          long_ma |-> long_ma[i].v,
                          rolling_vol |-> RootAt(roll_vol, p.s[i].t)]])

\* ------------------------------------------------------------------ inputs

\* A Series over the dates ts (increasing) with the values f[i]; the value 0
\* stands for a missing value (NaN).
MakeSeries(ts, f) ==
    [i \in DOMAIN ts |-> [t |-> ts[i], v |-> IF f[i] = 0 THEN NaN ELSE Int2F(f[i])]]

\* The value rows of the single-series inputs: prices in 1..MaxPrice on
\* consecutive days, after a leading gap of at most MaxGap missing values.
GappedValues ==
    UNION {{f \in [1 .. L -> 0 .. MaxPrice] :
               \A i \in 1 .. L : f[i] = 0 => (i <= MaxGap /\ \A j \in 1 .. i : f[j] = 0)}
           : L \in 0 .. MaxLen}

PriceInputs ==
    {NoneSeries} \cup {Series(MakeSeries([i \in DOMAIN f |-> i], f)) : f \in GappedValues}

\* The two-series inputs: a price in 1..BenchPrice on each date of any subset
\* of the dates 1..BenchDates.
DatedInputs ==
    UNION {{Series(MakeSeries(SortedSeq(D), f)) : f \in [1 .. Cardinality(D) -> 1 .. BenchPrice]}
           : D \in SUBSET (1 .. BenchDates)}

\* The inputs of the calls that read the risk-free rate: None and the gap-free
\* series of up to RateLen prices in 1..RatePrice on consecutive days.
RateInputs ==
    {NoneSeries} \cup
    UNION {{Series(MakeSeries([i \in 1 .. L |-> i], f)) : f \in [1 .. L -> 1 .. RatePrice]}
           : L \in 0 .. RateLen}

\* The window rolling_sharpe is given where the rate is what varies, and the
\* volatility window detect_regime is given.
SharpeWindow == 2
RegimeVolWindow == 2

\* The risk-free rates a caller sets or passes.
Rates == {Zero, Rat(4, 100)}
RateArgs == {NoneFloat} \cup {Float(r) : r \in Rates}
Confidences == {Rat(95, 100), Rat(1, 2)}
DefaultMaxLag == 20
MaxLags == {1, DefaultMaxLag}

\* The values a caller gives a keyword of set_config: two for each setting (and
\* for the attribute behind timeout), one for a name Config does not have and
\* for an attribute every object has.
KwargValues(key) ==
    CASE key = "risk_free_rate" -> Rates
      [] key = "default_theme" -> {"flux", "dark"}
      [] key = "default_period" -> {"5y", "1y"}
      [] key = "cache_dir" -> {"None", "/tmp/flux"}
      [] key \in {"timeout", "_timeout"} -> {30, 10}
      [] OTHER -> {"x"}
KwargKeys == Settings \cup {"_timeout", "__doc__", "theme"}
Kwarg == UNION {{[key |-> key, value |-> v] : v \in KwargValues(key)} : key \in KwargKeys}
\* A call's keywords: 1..MaxKwargs of them, no key twice.
KwargsInputs ==
    UNION {{kw \in [1 .. n -> Kwarg] : \A i, j \in 1 .. n : i # j => kw[i].key # kw[j].key}
           : n \in 1 .. MaxKwargs}

\* The Close column of a fetched frame: increasing dates out of 1..AlignDates,
\* the price 1 or a missing value at each.
CloseInputs ==
    UNION {{[i \in DOMAIN ts |-> [t |-> ts[i], v |-> vs[i]]] :
               vs \in [DOMAIN ts -> {One, NaN}]}
           : ts \in {SortedSeq(S) : S \in SUBSET (1 .. AlignDates)}}
\* The dicts handed to align_dataframes: one to three tickers in some order
\* (TickerOrders), each with a Close column.
AlignTickers == {"A", "B", "C"}
TickerOrders ==
    UNION {{k \in [1 .. n -> AlignTickers] : \A i, j \in 1 .. n : i # j => k[i] # k[j]}
           : n \in 1 .. Cardinality(AlignTickers)}
Items(ks, cs) == [i \in DOMAIN ks |-> [ticker |-> ks[i], close |-> cs[i]]]

\* The Close columns a fetch returns (it raises on an empty frame): one row,
\* on which compute_metrics raises, and series of two and three rows.
ScreenCloses ==
    {MakeSeries([i \in DOMAIN f |-> i], f) : f \in {<<1>>, <<1, 2>>, <<1, 2, 4>>, <<2, 1, 2>>}}

\* The dicts handed to format_metrics: up to MaxItems entries, no key twice,
\* under the keys compute_metrics writes; the values are floats that binary
\* floating point holds exactly, ties of the rounding and non-finite ones
\* among them.
FormatKeys ==
    {BaseKeys[i] : i \in DOMAIN BaseKeys} \cup {BenchmarkKeys[i] : i \in DOMAIN BenchmarkKeys}
FormatValues == {NaN, Rat(-1, 0), Rat(-1, 1024), Rat(1, 8), Rat(3, 8)}
MetricsItem == [key : FormatKeys, value : FormatValues]

\* The series handed to hurst_exponent with a max_lag it is long enough for:
\* up to HurstLen prices in 1..HurstPrice on consecutive days.
HurstLags == {1, 2, 3, DefaultMaxLag}

\* The dates of the series handed to cagr: days a day, a year less a day, a
\* year and more than a year apart, in any order of the rows (equal and
\* decreasing dates among them).
CagrDates == {1, 2, 366, 367, 368}

\* The price matrices handed to portfolio.py: the empty frame, and up to
\* MaxRows rows of prices 1..MatrixPrice for the first one or more of Tickers.
Tickers == <<"A", "B">>
MatrixInputs ==
    {Frame(<<>>, <<>>)}
        \cup UNION {{Frame(SubSeq(Tickers, 1, n), rows) :
                        rows \in UNION {[1 .. m -> [1 .. n -> {Int2F(v) : v \in 1 .. MatrixPrice}]]
                                        : m \in 0 .. MaxRows}}
                    : n \in 1 .. Len(Tickers)}
\* The objectives a caller names: the three known ones and another.
ObjectiveInputs == Objectives \cup {"max_sharpe"}

\* The arguments of a call, each at its default unless the call passes it.
DefaultArgs ==
    [risk_free_rate |-> NoneFloat, annualize |-> TRUE, confidence |-> Rat(95, 100),
     threshold |-> Zero, max_lag |-> DefaultMaxLag, benchmark_prices |-> NoneSeries,
     window |-> 21, short_window |-> 20, long_window |-> 50, vol_window |-> 21,
     vol_threshold |-> Rat(1, 4), objective |-> "sharpe", kwargs |-> <<>>]

\* The windows a caller passes to the rolling functions.
Windows == 1 .. MaxWindow

\* ----------------------------------------------------------------- actions

\* A call made by the (single-threaded) caller, who is between two calls.
Returned(name, a, r) ==
    /\ fn = "none"
    /\ fn' = name
    /\ args' = a
    /\ ret' = r
    /\ UNCHANGED <<prices, benchmark, dfs, metrics, futures, RISK_FREE_RATE, GLOBAL_CONFIG, result>>

set_risk_free_rate ==
    \E rate \in Rates :
        /\ fn = "none"
        /\ RISK_FREE_RATE' = rate
        /\ fn' = "set_risk_free_rate"
        /\ args' = [DefaultArgs EXCEPT !.risk_free_rate = Float(rate)]
        /\ ret' = NoCall
        /\ UNCHANGED <<prices, benchmark, dfs, metrics, futures, GLOBAL_CONFIG, result>>

get_risk_free_rate == Returned("get_risk_free_rate", DefaultArgs, RetRat(RISK_FREE_RATE))

Call_daily_returns == Returned("daily_returns", DefaultArgs, daily_returns(prices))

Call_cumulative_returns ==
    Returned("cumulative_returns", DefaultArgs, cumulative_returns(prices))

Call_total_return == Returned("total_return", DefaultArgs, total_return(prices))

Call_cagr == Returned("cagr", DefaultArgs, cagr(prices))

Call_volatility ==
    \E annualize \in BOOLEAN :
        Returned("volatility", [DefaultArgs EXCEPT !.annualize = annualize],
                 volatility(prices, annualize))

Call_max_drawdown == Returned("max_drawdown", DefaultArgs, max_drawdown(prices))

Call_drawdown_series == Returned("drawdown_series", DefaultArgs, drawdown_series(prices))

Call_sharpe_ratio ==
    \E rf \in RateArgs :
        Returned("sharpe_ratio", [DefaultArgs EXCEPT !.risk_free_rate = rf],
                 sharpe_ratio(prices, rf))

Call_sortino_ratio ==
    \E rf \in RateArgs :
        Returned("sortino_ratio", [DefaultArgs EXCEPT !.risk_free_rate = rf],
                 sortino_ratio(prices, rf))

Call_calmar_ratio == Returned("calmar_ratio", DefaultArgs, calmar_ratio(prices))

Call_value_at_risk ==
    \E c \in Confidences :
        Returned("value_at_risk", [DefaultArgs EXCEPT !.confidence = c],
                 value_at_risk(prices, c))

Call_conditional_va_risk ==
    \E c \in Confidences :
        Returned("conditional_va_risk", [DefaultArgs EXCEPT !.confidence = c],
                 conditional_va_risk(prices, c))

Call_omega_ratio == Returned("omega_ratio", DefaultArgs, omega_ratio(prices, Zero))

Call_win_rate == Returned("win_rate", DefaultArgs, win_rate(prices))

Call_hurst_exponent ==
    \E m \in MaxLags :
        Returned("hurst_exponent", [DefaultArgs EXCEPT !.max_lag = m],
                 hurst_exponent(prices, m))

\* beta(prices, b) for the benchmark argument b.
Call_beta(b) ==
    Returned("beta", [DefaultArgs EXCEPT !.benchmark_prices = b], beta(prices, b))

\* alpha(prices, b, rf)
Call_alpha(b, rf) ==
    Returned("alpha", [DefaultArgs EXCEPT !.benchmark_prices = b, !.risk_free_rate = rf],
             alpha(prices, b, rf))

Call_rolling_volatility ==
    \E window \in Windows, annualize \in BOOLEAN :
        Returned("rolling_volatility",
                 [DefaultArgs EXCEPT !.window = window, !.annualize = annualize],
                 rolling_volatility(prices, window, annualize))

Call_rolling_sharpe(window) ==
    \E rf \in RateArgs :
        Returned("rolling_sharpe", [DefaultArgs EXCEPT !.window = window, !.risk_free_rate = rf],
                 rolling_sharpe(prices, window, rf))

\* rolling_beta(prices, b, window)
Call_rolling_beta(b) ==
    \E window \in Windows :
        Returned("rolling_beta", [DefaultArgs EXCEPT !.window = window, !.benchmark_prices = b],
                 rolling_beta(prices, b, window))

Call_z_score ==
    \E window \in Windows :
        Returned("z_score", [DefaultArgs EXCEPT !.window = window], z_score(prices, window))

\* detect_regime with short windows, so that the moving averages exist on the
\* series drawn, and with its default threshold.
Call_detect_regime ==
    \E short_window \in 1 .. 2, long_window \in 2 .. MaxWindow :
        Returned("detect_regime",
                 [DefaultArgs EXCEPT !.short_window = short_window, !.long_window = long_window,
                                     !.vol_window = RegimeVolWindow],
                 detect_regime(prices, short_window, long_window, RegimeVolWindow,
                               DefaultArgs.vol_threshold))

\* compute_metrics(prices, b, rf)
Call_compute_metrics(b) ==
    \E rf \in RateArgs :
        Returned("compute_metrics",
                 [DefaultArgs EXCEPT !.benchmark_prices = b, !.risk_free_rate = rf],
                 compute_metrics(prices, b, rf))

\* set_config(**kwargs)
set_config ==
    \E kwargs \in KwargsInputs :
        LET out == set_config_loop(GLOBAL_CONFIG, kwargs)
        IN  /\ fn = "none"
            /\ GLOBAL_CONFIG' = out.config
            /\ fn' = "set_config"
            /\ args' = [DefaultArgs EXCEPT !.kwargs = kwargs]
            /\ ret' = out.ret
            /\ UNCHANGED <<prices, benchmark, dfs, metrics, futures, RISK_FREE_RATE, result>>

get_config == Returned("get_config", DefaultArgs, RetConfig(GLOBAL_CONFIG))

\* optimize_portfolio(prices, objective, risk_free_rate): the solver is called
\* once and its point reported, or the call leaves with an exception.
optimize_portfolio ==
    \E objective \in ObjectiveInputs, rf \in RateArgs :
        LET risk_free_rate == IF rf.given THEN rf.r ELSE PortfolioDefaultRate
            before == optimize_portfolio_before(prices, objective)
            mean_ret == mean_returns(prices)
            covm == cov_matrix(prices)
        IN  /\ fn = "none"
            /\ fn' = "optimize_portfolio"
            /\ args' = [DefaultArgs EXCEPT !.objective = objective, !.risk_free_rate = rf]
            /\ IF before.k = "raise"
               THEN /\ result' = NoResult
                    /\ ret' = before
               ELSE \E res \in minimize(objective, mean_ret, covm, risk_free_rate,
                                         initial_weights(Len(prices.columns))) :
                        /\ result' = res
                        /\ ret' = optimize_portfolio_after(prices.columns, mean_ret, covm,
                                                           risk_free_rate, res.x)
            /\ UNCHANGED <<prices, benchmark, dfs, metrics, futures, RISK_FREE_RATE, GLOBAL_CONFIG>>

Call_equal_weight_portfolio ==
    Returned("equal_weight_portfolio", DefaultArgs, equal_weight_portfolio(prices))

Call_align_dataframes ==
    Returned("align_dataframes", DefaultArgs, align_dataframes(dfs))

Call_format_metrics == Returned("format_metrics", DefaultArgs, format_metrics(metrics))

\* screen_tickers(tickers), up to the point where fetch_multiple has submitted
\* one fetch for each ticker to the pool and waits for the first result.
Call_screen_tickers ==
    \E tickers \in TickerOrders :
        /\ fn = "none"
        /\ fn' = "fetch_multiple"
        /\ args' = DefaultArgs
        /\ ret' = NoCall
        /\ futures' = [i \in DOMAIN tickers |-> Running(tickers[i])]
        /\ UNCHANGED <<prices, benchmark, dfs, metrics, RISK_FREE_RATE, GLOBAL_CONFIG, result>>

\* A worker thread ends its fetch: with FluxDataError or with a frame.  The
\* workers end in any order.
fetch ==
    \E i \in DOMAIN futures :
        /\ futures[i].state = "running"
        /\ \E done \in {Failed(futures[i].ticker)}
                         \cup {Fetched(futures[i].ticker, c) : c \in ScreenCloses} :
               futures' = [futures EXCEPT ![i] = done]
        /\ UNCHANGED <<prices, benchmark, dfs, metrics, RISK_FREE_RATE, GLOBAL_CONFIG,
                       result, fn, args, ret>>

\* The rest of screen_tickers, once every future is done (result() waits for
\* each, and leaving the `with` block waits for all): fetch_multiple returns
\* or raises, and screen_tickers, which calls it outside any try, computes the
\* metrics of each frame and sorts the rows.
screen_tickers ==
    /\ fn = "fetch_multiple"
    /\ \A i \in DOMAIN futures : futures[i].state = "done"
    /\ fn' = "screen_tickers"
    /\ ret' \in ScreenOutcomes(fetch_multiple_result(futures), ScreenRows(futures))
    /\ UNCHANGED <<prices, benchmark, dfs, metrics, futures, RISK_FREE_RATE, GLOBAL_CONFIG,
                   result, args>>

\* The caller takes the outcome of its call and goes on to the next one.
Resume ==
    /\ fn # "none"
    /\ fn' = "none"
    /\ args' = DefaultArgs
    /\ ret' = NoCall
    /\ result' = NoResult
    /\ UNCHANGED <<prices, benchmark, dfs, metrics, futures, RISK_FREE_RATE, GLOBAL_CONFIG>>

\* ---------------------------------------------------------- specifications

\* One price series, every metric called on it; the two-series metrics are
\* called with the series itself as the benchmark.
Init ==
    /\ prices \in PriceInputs
    /\ benchmark = NoneSeries
    /\ dfs = <<>>
    /\ RISK_FREE_RATE = InitialRiskFreeRate
    /\ GLOBAL_CONFIG = Config
    /\ result = NoResult
    /\ metrics = <<>>
    /\ futures = <<>>
    /\ fn = "none"
    /\ args = DefaultArgs
    /\ ret = NoCall

Next ==
    \/ set_risk_free_rate
    \/ get_risk_free_rate
    \/ Call_daily_returns
    \/ Call_cumulative_returns
    \/ Call_total_return
    \/ Call_cagr
    \/ Call_volatility
    \/ Call_max_drawdown
    \/ Call_drawdown_series
    \/ Call_sharpe_ratio
    \/ Call_sortino_ratio
    \/ Call_calmar_ratio
    \/ Call_value_at_risk
    \/ Call_conditional_va_risk
    \/ Call_omega_ratio
    \/ Call_win_rate
    \/ Call_hurst_exponent
    \/ Call_beta(prices)
    \/ \E rf \in RateArgs : Call_alpha(prices, rf)
    \/ Resume

Spec == Init /\ [][Next]_vars

\* An asset and a benchmark on dates of their own.
InitBench ==
    /\ prices \in DatedInputs
    /\ benchmark \in DatedInputs
    /\ dfs = <<>>
    /\ RISK_FREE_RATE = InitialRiskFreeRate
    /\ GLOBAL_CONFIG = Config
    /\ result = NoResult
    /\ metrics = <<>>
    /\ futures = <<>>
    /\ fn = "none"
    /\ args = DefaultArgs
    /\ ret = NoCall

NextBench ==
    \/ Call_beta(benchmark)
    \/ Call_alpha(benchmark, NoneFloat)
    \/ Resume

SpecBench == InitBench /\ [][NextBench]_vars

\* The rolling functions and detect_regime on one price series; rolling_beta
\* takes the series itself as its benchmark.
NextRolling ==
    \/ Call_rolling_volatility
    \/ \E window \in Windows : Call_rolling_sharpe(window)
    \/ Call_rolling_beta(prices)
    \/ Call_z_score
    \/ Call_detect_regime
    \/ Resume

SpecRolling == Init /\ [][NextRolling]_vars

\* The risk-free rate: its setter and getter, and the functions that read it.
NextRate ==
    \/ set_risk_free_rate
    \/ get_risk_free_rate
    \/ Call_sharpe_ratio
    \/ Call_sortino_ratio
    \/ Call_rolling_sharpe(SharpeWindow)
    \/ \E rf \in RateArgs : Call_alpha(prices, rf)
    \/ \E b \in {NoneSeries, prices} : Call_compute_metrics(b)
    \/ Resume

InitRate ==
    /\ prices \in RateInputs
    /\ benchmark = NoneSeries
    /\ dfs = <<>>
    /\ RISK_FREE_RATE = InitialRiskFreeRate
    /\ GLOBAL_CONFIG = Config
    /\ result = NoResult
    /\ metrics = <<>>
    /\ futures = <<>>
    /\ fn = "none"
    /\ args = DefaultArgs
    /\ ret = NoCall

SpecRate == InitRate /\ [][NextRate]_vars

\* The two stores of the risk-free rate and their accessors.
NextConfig ==
    \/ set_config
    \/ get_config
    \/ set_risk_free_rate
    \/ get_risk_free_rate
    \/ Resume

InitConfig ==
    /\ prices = NoneSeries
    /\ benchmark = NoneSeries
    /\ dfs = <<>>
    /\ RISK_FREE_RATE = InitialRiskFreeRate
    /\ GLOBAL_CONFIG = Config
    /\ result = NoResult
    /\ metrics = <<>>
    /\ futures = <<>>
    /\ fn = "none"
    /\ args = DefaultArgs
    /\ ret = NoCall

SpecConfig == InitConfig /\ [][NextConfig]_vars

\* A price matrix, optimized and weighted equally.
NextPortfolio ==
    \/ optimize_portfolio
    \/ Call_equal_weight_portfolio
    \/ Resume

InitPortfolio ==
    /\ prices \in MatrixInputs
    /\ benchmark = NoneSeries
    /\ dfs = <<>>
    /\ RISK_FREE_RATE = InitialRiskFreeRate
    /\ GLOBAL_CONFIG = Config
    /\ result = NoResult
    /\ metrics = <<>>
    /\ futures = <<>>
    /\ fn = "none"
    /\ args = DefaultArgs
    /\ ret = NoCall

SpecPortfolio == InitPortfolio /\ [][NextPortfolio]_vars

\* Fetched frames, aligned.
NextAlign ==
    \/ Call_align_dataframes
    \/ Resume

InitAlign ==
    /\ prices = NoneSeries
    /\ benchmark = NoneSeries
    /\ \E ks \in TickerOrders : \E cs \in [DOMAIN ks -> CloseInputs] : dfs = Items(ks, cs)
    /\ RISK_FREE_RATE = InitialRiskFreeRate
    /\ GLOBAL_CONFIG = Config
    /\ result = NoResult
    /\ metrics = <<>>
    /\ futures = <<>>
    /\ fn = "none"
    /\ args = DefaultArgs
    /\ ret = NoCall

SpecAlign == InitAlign /\ [][NextAlign]_vars

\* A screening: the main thread and the worker threads of the pool.
NextScreen ==
    \/ Call_screen_tickers
    \/ fetch
    \/ screen_tickers
    \/ Resume

InitScreen ==
    /\ prices = NoneSeries
    /\ benchmark = NoneSeries
    /\ dfs = <<>>
    /\ metrics = <<>>
    /\ futures = <<>>
    /\ RISK_FREE_RATE = InitialRiskFreeRate
    /\ GLOBAL_CONFIG = Config
    /\ result = NoResult
    /\ fn = "none"
    /\ args = DefaultArgs
    /\ ret = NoCall

SpecScreen == InitScreen /\ [][NextScreen]_vars

\* The rolling beta of an asset against a benchmark with dates of its own.
NextRollingBeta ==
    \/ Call_rolling_beta(benchmark)
    \/ Resume

SpecRollingBeta == InitBench /\ [][NextRollingBeta]_vars

\* The Hurst exponent of series long enough for a fit.
Call_hurst_fit ==
    \E m \in HurstLags :
        Returned("hurst_exponent", [DefaultArgs EXCEPT !.max_lag = m],
                 hurst_exponent(prices, m))

NextHurst ==
    \/ Call_hurst_fit
    \/ Resume

InitHurst ==
    /\ \E L \in 0 .. HurstLen : \E f \in [1 .. L -> 1 .. HurstPrice] :
           prices = Series(MakeSeries([i \in 1 .. L |-> i], f))
    /\ benchmark = NoneSeries
    /\ dfs = <<>>
    /\ metrics = <<>>
    /\ futures = <<>>
    /\ RISK_FREE_RATE = InitialRiskFreeRate
    /\ GLOBAL_CONFIG = Config
    /\ result = NoResult
    /\ fn = "none"
    /\ args = DefaultArgs
    /\ ret = NoCall

SpecHurst == InitHurst /\ [][NextHurst]_vars

\* The annual growth of a series over any span of dates.
NextCagr ==
    \/ Call_total_return
    \/ Call_cagr
    \/ Call_max_drawdown
    \/ Call_calmar_ratio
    \/ Resume

InitCagr ==
    /\ \E L \in 1 .. CagrLen : \E ts \in [1 .. L -> CagrDates] :
           \E f \in [1 .. L -> 1 .. CagrPrice] : prices = Series(MakeSeries(ts, f))
    /\ benchmark = NoneSeries
    /\ dfs = <<>>
    /\ metrics = <<>>
    /\ futures = <<>>
    /\ RISK_FREE_RATE = InitialRiskFreeRate
    /\ GLOBAL_CONFIG = Config
    /\ result = NoResult
    /\ fn = "none"
    /\ args = DefaultArgs
    /\ ret = NoCall

SpecCagr == InitCagr /\ [][NextCagr]_vars

\* A dict of metrics, formatted.
NextFormat ==
    \/ Call_format_metrics
    \/ Resume

InitFormat ==
    /\ prices = NoneSeries
    /\ benchmark = NoneSeries
    /\ dfs = <<>>
    /\ \E n \in 0 .. MaxItems : \E m \in [1 .. n -> MetricsItem] :
           /\ \A i, j \in 1 .. n : i # j => m[i].key # m[j].key
           /\ metrics = m
    /\ futures = <<>>
    /\ RISK_FREE_RATE = InitialRiskFreeRate
    /\ GLOBAL_CONFIG = Config
    /\ result = NoResult
    /\ fn = "none"
    /\ args = DefaultArgs
    /\ ret = NoCall

SpecFormat == InitFormat /\ [][NextFormat]_vars

\* ------------------------------------------------------------------ claims

\* What the claims say of the inputs, read off the prices themselves (every
\* price of the inputs is a whole number, so these are integer comparisons).
TooShort(p) == p.none \/ Len(p.s) < 2
PositivePrices(p) == ~p.none /\ \A i \in DOMAIN p.s : ~IsNaN(p.s[i].v)
ValidSeries(p) == PositivePrices(p) /\ Len(p.s) >= 2
Px(p, i) == p.s[i].v.n
\* Every daily return p[i+1]/p[i] - 1 is the same number.
ConstantReturn(p) ==
    \A i \in 2 .. (Len(p.s) - 1) : Px(p, i + 1) * Px(p, i - 1) = Px(p, i) * Px(p, i)
\* The days whose return is negative.
DownDays(p) == {i \in 2 .. Len(p.s) : Px(p, i) < Px(p, i - 1)}
NonDecreasing(p) == DownDays(p) = {}
Raised(exc) == ret.k = "raise" /\ ret.ty = exc

\* C1: daily_returns raises FluxComputeError exactly for a series that is None,
\* empty or shorter than 2 points, and returns a series for every other one.
C1_DailyReturnsRaisesIffShort ==
    fn = "daily_returns" =>
        /\ TooShort(prices) <=> ret.k = "raise"
        /\ ret.k = "raise" => ret.ty = "FluxComputeError"
        /\ ret.k # "raise" => (ret.k = "value" /\ ret.ty = "series")

\* A one-point series was refused.
C1_Witness ==
    /\ fn = "daily_returns"
    /\ PositivePrices(prices) /\ Len(prices.s) = 1
    /\ Raised("FluxComputeError")

\* The metrics that validate their input (through daily_returns or cagr).
ValidatingMetrics ==
    {"cagr", "volatility", "sharpe_ratio", "sortino_ratio", "calmar_ratio",
     "value_at_risk", "conditional_va_risk", "omega_ratio", "win_rate"}

C3_SharpeZeroOnConstantReturns ==
    (fn = "sharpe_ratio" /\ ValidSeries(prices) /\ ConstantReturn(prices)) =>
        /\ Len(prices.s) >= 3 => ret = RetRoot(RootZero)
        /\ args.risk_free_rate = Float(Zero) => ret = RetRoot(RootZero)

\* C4 as stated: on every valid series with a constant daily return, the
\* 2-point series included, volatility is 0 (annualized or not) and
\* sharpe_ratio at rf = 0 is 0.0.
C4_ConstantReturnGivesZero ==
    (ValidSeries(prices) /\ ConstantReturn(prices)) =>
        /\ fn = "volatility" => ret = RetRoot(RootZero)
        /\ (fn = "sharpe_ratio" /\ args.risk_free_rate = Float(Zero)) => ret = RetRoot(RootZero)

\* The days with a return at all (both prices known), and those with a gain.
ReturnDays(p) == {i \in 2 .. Len(p.s) : ~IsNaN(p.s[i].v) /\ ~IsNaN(p.s[i - 1].v)}
UpDays(p) == {i \in ReturnDays(p) : Px(p, i) > Px(p, i - 1)}

\* C5: win_rate is (number of returns > 0) / (number of returns), hence 1.0 when
\* every return is positive, 0.0 when none is, within [0, 1], and 0.0 when there
\* is no return.
C5_WinRateIsShareOfGains ==
    (fn = "win_rate" /\ ret.k = "value") =>
        LET n == Cardinality(ReturnDays(prices))
            w == Cardinality(UpDays(prices))
        IN  /\ ret.ty = "rat"
            /\ n = 0 => ret.v = Zero
            /\ n > 0 => ret.v.n * n = w * ret.v.d
            /\ (n > 0 /\ w = n) => ret.v = One
            /\ w = 0 => ret.v = Zero
            /\ FLe(Zero, ret.v) /\ FLe(ret.v, One)

\* A flat day beside a gain: the flat day is no win.
C5_Witness ==
    /\ fn = "win_rate" /\ ret.k = "value"
    /\ ValidSeries(prices)
    /\ \E i \in ReturnDays(prices) : Px(prices, i) = Px(prices, i - 1)
    /\ UpDays(prices) # {}
    /\ DownDays(prices) = {}
    /\ FLt(ret.v, One) /\ FGt(ret.v, Zero)

\* C6 as stated: sortino_ratio is 0.0 on a valid series with no negative return,
\* and on one whose negative returns are all equal (a single one included).
C6_SortinoZeroOnDegenerateDownside ==
    (fn = "sortino_ratio" /\ ValidSeries(prices)
       /\ \A i, j \in DownDays(prices) :
              Px(prices, i) * Px(prices, j - 1) = Px(prices, j) * Px(prices, i - 1))
        => ret = RetRoot(RootZero)

\* The highest of the first i prices.
PeakTo(p, i) == CHOOSE m \in {Px(p, j) : j \in 1 .. i} : \A j \in 1 .. i : Px(p, j) <= m

\* What C7 says of the drawdowns of a series of positive prices.
DrawdownProperties ==
    /\ fn = "max_drawdown" =>
          /\ ret.k = "value" /\ FLe(ret.v, Zero)
          /\ ret.v = Zero <=> NonDecreasing(prices)
    /\ fn = "drawdown_series" =>
          /\ ret.k = "value" /\ Len(ret.v) = Len(prices.s)
          /\ \A i \in DOMAIN prices.s :
                /\ FLe(ret.v[i].v, Zero)
                /\ ret.v[i].t = prices.s[i].t
                /\ ret.v[i].v = Rat(Px(prices, i) - PeakTo(prices, i), PeakTo(prices, i))

C8_CumulativeReturnsTelescope ==
    (fn = "cumulative_returns" /\ ValidSeries(prices)) =>
        /\ ret.k = "value" /\ ret.ty = "series"
        /\ Len(ret.v) = Len(daily_returns(prices).v)
        /\ Len(ret.v) = Len(prices.s) - 1
        /\ \A k \in DOMAIN ret.v :
              /\ ret.v[k].t = prices.s[k + 1].t
              /\ ret.v[k].v = Rat(Px(prices, k + 1) - Px(prices, 1), Px(prices, 1))
              /\ FAdd(ret.v[k].v, One)
                    = FMul(IF k = 1 THEN One ELSE FAdd(ret.v[k - 1].v, One),
                           Rat(Px(prices, k + 1), Px(prices, k)))
        /\ ret.v[Len(ret.v)].v = total_return(prices).v

\* A rise then a fall: the running product went up and came down.
C8_Witness ==
    /\ fn = "cumulative_returns" /\ ValidSeries(prices) /\ Len(prices.s) >= 3
    /\ ret.k = "value"
    /\ FGt(ret.v[1].v, Zero)
    /\ FLt(ret.v[2].v, ret.v[1].v)

\* C9 as stated: with any valid series as both asset and benchmark, constant
\* prices and 2-point series included, beta is 1.0 and alpha is 0.0 at every
\* risk-free rate.
C9_SelfBetaOneAlphaZero ==
    (ValidSeries(prices) /\ args.benchmark_prices = prices) =>
        /\ fn = "beta" => ret = RetRat(One)
        /\ fn = "alpha" => ret = RetLin(LinConst(Zero))

\* The dates with a return: every date of a series but its first.
ReturnDates(p) == {p.s[i].t : i \in 2 .. Len(p.s)}
\* The return of series p on date t.
ReturnOn(p, t) ==
    LET i == CHOOSE j \in 2 .. Len(p.s) : p.s[j].t = t
    IN  Rat(Px(p, i) - Px(p, i - 1), Px(p, i - 1))
SumOver(T, F(_)) == LET ts == SortedSeq(T) IN SeqSum([i \in DOMAIN ts |-> F(ts[i])])

\* C10: beta is cov(asset, benchmark) / var(benchmark) over the dates on which
\* both series have a return, and exactly 0.0 when that variance is 0.  (With
\* T the common dates, n their number, x the asset's and y the benchmark's
\* returns: cov / var = (n Sxy - Sx Sy) / (n Syy - Sy Sy).  The sample
\* variance of fewer than 2 rows is not 0 but undefined, and so is beta then.)
C10_BetaOverCommonDates ==
    (fn = "beta" /\ ValidSeries(prices) /\ ValidSeries(benchmark)
       /\ args.benchmark_prices = benchmark) =>
        LET T == ReturnDates(prices) \cap ReturnDates(benchmark)
            n == Int2F(Cardinality(T))
            X(t) == ReturnOn(prices, t)
            Y(t) == ReturnOn(benchmark, t)
            XY(t) == FMul(X(t), Y(t))
            YY(t) == FMul(Y(t), Y(t))
            num == FSub(FMul(n, SumOver(T, XY)), FMul(SumOver(T, X), SumOver(T, Y)))
            den == FSub(FMul(n, SumOver(T, YY)), FMul(SumOver(T, Y), SumOver(T, Y)))
        IN  /\ ret.k = "value" /\ ret.ty = "rat"
            /\ Cardinality(T) >= 2 =>
                  /\ den = Zero => ret.v = Zero
                  /\ den # Zero => ret.v = FDiv(num, den)
            /\ Cardinality(T) < 2 => ret.v = NaN

\* The two series differ in their dates, and the benchmark's returns on the
\* dates they share are not zero and do not vary: beta is 0.0.
C10_Witness ==
    /\ fn = "beta" /\ ValidSeries(prices) /\ ValidSeries(benchmark)
    /\ args.benchmark_prices = benchmark
    /\ ReturnDates(prices) # ReturnDates(benchmark)
    /\ Cardinality(ReturnDates(prices) \cap ReturnDates(benchmark)) >= 2
    /\ \A t, u \in ReturnDates(prices) \cap ReturnDates(benchmark) :
           ReturnOn(benchmark, t) = ReturnOn(benchmark, u) /\ ReturnOn(benchmark, t) # Zero
    /\ ret = RetRat(Zero)

\* The rolling functions C11 names.
RollingFunctions == {"rolling_volatility", "rolling_sharpe", "rolling_beta", "z_score"}
\* The daily returns of a valid series (positive prices, no gap), as floats.
ReturnsOf(p) == [k \in 1 .. (Len(p.s) - 1) |-> Rat(Px(p, k + 1) - Px(p, k), Px(p, k))]
\* An entry of a rolling result is undefined (NaN), whatever its kind.
Undefined(x) == IF "c" \in DOMAIN x THEN RootIsNaN(x) ELSE IsNaN(x)
\* What the w observations ending at entry i give, for the function called:
\* the observations are the returns, for z_score the prices.
WindowValue(i, w) ==
    LET obs == Trailing(ReturnsOf(prices), i, w)
        rate == IF args.risk_free_rate.given THEN args.risk_free_rate.r ELSE RISK_FREE_RATE
        pobs == Trailing([k \in DOMAIN prices.s |-> prices.s[k].v], i, w)
    IN  CASE fn = "rolling_volatility" ->
               IF args.annualize THEN RootMul(std(obs), SqrtTradingDays) ELSE std(obs)
          [] fn = "rolling_sharpe" ->
               RootMul(FDivRoot(FSub(mean(obs), FDiv(rate, Int2F(TRADING_DAYS_PER_YEAR))),
                                std(obs)),
                       SqrtTradingDays)
          [] fn = "rolling_beta" -> FDiv(cov(obs, obs), var(obs))
          [] fn = "z_score" -> FDivRoot(FSub(prices.s[i].v, mean(pobs)), std(pobs))

\* C11 as stated: for each rolling function and every window w, the output is
\* as long as the return series, exactly its first w-1 entries are undefined,
\* and every later entry is defined and is a function of the w observations
\* that end at it.
C11_RollingWindows ==
    (fn \in RollingFunctions /\ ValidSeries(prices)) =>
        LET w == args.window
        IN  /\ ret.k = "value"
            /\ Len(ret.v) = Len(ReturnsOf(prices))
            /\ \A i \in DOMAIN ret.v :
                  /\ Undefined(ret.v[i].v) <=> i <= w - 1
                  /\ i >= w => ret.v[i].v = WindowValue(i, w)

\* C12 as stated: on every valid series detect_regime returns, with one row per
\* timestamp, each row classified: trend is uptrend iff short_ma > long_ma and
\* downtrend otherwise, volatility_regime is high_vol iff the annualized
\* rolling volatility exceeds vol_threshold and low_vol otherwise.
C12_EveryRowClassified ==
    (fn = "detect_regime" /\ ValidSeries(prices)) =>
        /\ ret.k = "value"
        /\ Len(ret.v) = Len(prices.s)
        /\ \A i \in DOMAIN ret.v :
              /\ ret.v[i].t = prices.s[i].t
              /\ ret.v[i].trend =
                    (IF FGt(ret.v[i].short_ma, ret.v[i].long_ma) THEN "uptrend" ELSE "downtrend")
              /\ ret.v[i].volatility_regime =
                    (IF RootGt(ret.v[i].rolling_vol, args.vol_threshold) THEN "high_vol"
                     ELSE "low_vol")

\* The rate a call works with: the one it was passed, else the default d.
PassedRate(a, d) == IF a.risk_free_rate.given THEN a.risk_free_rate.r ELSE d

\* C13: compute_metrics raises FluxComputeError on fewer than 2 points; else it
\* returns a dict whose keys are exactly the eleven base metrics without a
\* benchmark and those plus beta, alpha, tracking_error and info_ratio with
\* one, and each entry is what the metric function returns for the same
\* series, benchmark and rate.
C13_ComputeMetricsEntries ==
    fn = "compute_metrics" =>
        LET b == args.benchmark_prices
            rf == Float(PassedRate(args, RISK_FREE_RATE))
        IN  /\ TooShort(prices) => Raised("FluxComputeError")
            /\ (~TooShort(prices) /\ (b.none \/ ~TooShort(b))) =>
                  /\ ret.k = "value" /\ ret.ty = "dict"
                  /\ DOMAIN ret.v =
                        {"total_return", "cagr", "volatility", "max_drawdown", "sharpe_ratio",
                         "sortino_ratio", "calmar_ratio", "win_rate", "var_95", "cvar_95",
                         "omega"}
                        \cup (IF b.none THEN {}
                              ELSE {"beta", "alpha", "tracking_error", "info_ratio"})
                  /\ ret.v["total_return"] = total_return(prices)
                  /\ ret.v["cagr"] = cagr(prices)
                  /\ ret.v["volatility"] = volatility(prices, TRUE)
                  /\ ret.v["max_drawdown"] = max_drawdown(prices)
                  /\ ret.v["sharpe_ratio"] = sharpe_ratio(prices, rf)
                  /\ ret.v["sortino_ratio"] = sortino_ratio(prices, rf)
                  /\ ret.v["calmar_ratio"] = calmar_ratio(prices)
                  /\ ret.v["win_rate"] = win_rate(prices)
                  /\ ret.v["var_95"] = value_at_risk(prices, Rat(95, 100))
                  /\ ret.v["cvar_95"] = conditional_va_risk(prices, Rat(95, 100))
                  /\ ret.v["omega"] = omega_ratio(prices, Zero)
                  /\ ~b.none =>
                        /\ ret.v["beta"] = beta(prices, b)
                        /\ ret.v["alpha"] = alpha(prices, b, rf)
                        /\ ret.v["tracking_error"] = tracking_error(prices, b, TRUE)
                        /\ ret.v["info_ratio"] = information_ratio(prices, b)

\* With a benchmark and the explicit rate 0.0 while the default is 0.04: the
\* Sharpe entry is the one of rate 0.0, which differs from the default's.
C13_Witness ==
    /\ fn = "compute_metrics" /\ ret.k = "value"
    /\ ~args.benchmark_prices.none
    /\ args.risk_free_rate = Float(Zero) /\ RISK_FREE_RATE = Rat(4, 100)
    /\ "info_ratio" \in DOMAIN ret.v
    /\ ret.v["sharpe_ratio"] # sharpe_ratio(prices, NoneFloat)

\* The Sharpe ratio of a valid series at the rate rf, from its definition:
\* 0.0 if the returns have no dispersion, else
\* (mean return - rf / 252) / std * sqrt(252).
SharpeAt(p, rf) ==
    LET returns == ReturnsOf(p)
    IN  IF RootEqZero(std(returns)) THEN RootZero
        ELSE RootMul(FDivRoot(FSub(mean(returns), FDiv(rf, Int2F(TRADING_DAYS_PER_YEAR))),
                              std(returns)),
                     SqrtTradingDays)

\* One step as C14 describes it: only set_risk_free_rate changes the default,
\* to the value it is given; get_risk_free_rate returns the default; and a
\* function that reads the rate works with the rate it is passed (0.0
\* included), else with the default of that moment.
RateStep ==
    LET rate == PassedRate(args', RISK_FREE_RATE)
    IN  /\ fn' = "set_risk_free_rate" => RISK_FREE_RATE' = args'.risk_free_rate.r
        /\ fn' # "set_risk_free_rate" => RISK_FREE_RATE' = RISK_FREE_RATE
        /\ fn' = "get_risk_free_rate" => ret' = RetRat(RISK_FREE_RATE)
        /\ (fn' = "sharpe_ratio" /\ ValidSeries(prices)) => ret' = RetRoot(SharpeAt(prices, rate))
        /\ fn' = "sortino_ratio" => ret' = sortino_ratio(prices, Float(rate))
        /\ fn' = "rolling_sharpe" => ret' = rolling_sharpe(prices, args'.window, Float(rate))
        /\ fn' = "alpha" => ret' = alpha(prices, args'.benchmark_prices, Float(rate))
        /\ (fn' = "compute_metrics" /\ ValidSeries(prices)) =>
              /\ ret'.v["sharpe_ratio"] = RetRoot(SharpeAt(prices, rate))
              /\ ret' = compute_metrics(prices, args'.benchmark_prices, Float(rate))

\* C14: the default risk-free rate starts at 0.04, is whatever the last
\* set_risk_free_rate call set, is what get_risk_free_rate returns, is used by
\* sharpe_ratio, sortino_ratio, rolling_sharpe, alpha and compute_metrics
\* exactly when no rate is passed, and is changed by no metric call.
C14_RateDefault == RISK_FREE_RATE = Rat(4, 100) /\ [][RateStep]_vars

\* The default was set to 0.0 and sharpe_ratio, called without a rate, gave the
\* value of rate 0.0, which is not the one of rate 0.04.
C14_Witness ==
    /\ fn = "sharpe_ratio" /\ ValidSeries(prices)
    /\ RISK_FREE_RATE = Zero /\ ~args.risk_free_rate.given
    /\ ret = RetRoot(SharpeAt(prices, Zero))
    /\ ret # RetRoot(SharpeAt(prices, Rat(4, 100)))

\* The keywords of the last set_config call, as a set.
KwargsOf(a) == {a.kwargs[i] : i \in DOMAIN a.kwargs}

\* C15 as stated: there is one global risk-free rate: whatever the calls of
\* set_config(risk_free_rate=x) and set_risk_free_rate(y) so far,
\* get_config().risk_free_rate, get_risk_free_rate() and the rate
\* optimize_portfolio takes by default are the same value, the one set last.
C15_SingleGlobalRate ==
    /\ GLOBAL_CONFIG.risk_free_rate = RISK_FREE_RATE
    /\ PortfolioDefaultRate = RISK_FREE_RATE
    /\ fn = "set_risk_free_rate" => RISK_FREE_RATE = args.risk_free_rate.r
    /\ fn = "set_config" =>
          \A kw \in KwargsOf(args) : kw.key = "risk_free_rate" => RISK_FREE_RATE = kw.value
    /\ fn = "get_config" => ret.v.risk_free_rate = RISK_FREE_RATE
    /\ fn = "get_risk_free_rate" => ret.v = RISK_FREE_RATE

\* C16 as stated: set_config with a key that is not one of the five settings
\* raises FluxConfigError; with known keys only it raises nothing and every
\* named setting then holds the value given.
C16_UnknownKeyIsConfigError ==
    fn = "set_config" =>
        IF \E kw \in KwargsOf(args) : kw.key \notin Settings
        THEN Raised("FluxConfigError")
        ELSE /\ ret.k # "raise"
             /\ \A kw \in KwargsOf(args) : GLOBAL_CONFIG[kw.key] = kw.value

\* The covariance matrix of the returns is defined: at least one asset and
\* every cell a finite float (three or more rows of prices).
ValidCovariance(p) ==
    /\ Len(p.columns) >= 1
    /\ \A j, k \in DOMAIN p.columns : IsFinite(cov_matrix(p)[j][k])
\* The sum of the weights of a returned mapping.
WeightSum(p, weights) == SeqSum([j \in DOMAIN p.columns |-> weights[p.columns[j]]])
\* The tolerance within which weights sum to 1.
WeightTolerance == Rat(1, 1000000)
OnSimplex(p, weights) ==
    /\ DOMAIN weights = {p.columns[j] : j \in DOMAIN p.columns}
    /\ \A c \in DOMAIN weights : FLe(Zero, weights[c]) /\ FLe(weights[c], One)
    /\ FLe(FAbs(FSub(WeightSum(p, weights), One)), WeightTolerance)

\* C17 as stated: for a price matrix with a valid covariance matrix and a
\* known objective, optimize_portfolio returns one weight per asset, each in
\* [0, 1], summing to 1 within 1e-6, whether the solver reports success or not.
C17_WeightsOnSimplex ==
    (fn = "optimize_portfolio" /\ args.objective \in Objectives /\ ValidCovariance(prices))
        => ret.k = "value" /\ OnSimplex(prices, ret.v.weights)

\* C18 as stated: for every price matrix of two or more assets and two or
\* more rows, the volatility optimize_portfolio returns for "min_vol" is a
\* number less than or equal to the volatility equal_weight_portfolio returns.
C18_MinVolNotAboveEqualWeight ==
    (/\ fn = "optimize_portfolio"
     /\ args.objective = "min_vol"
     /\ Len(prices.columns) >= 2
     /\ Len(prices.rows) >= 2)
        => LET equal == equal_weight_portfolio(prices)
           IN  /\ ret.k = "value"
               /\ equal.k = "value"
               /\ ~RootIsNaN(ret.v.volatility)
               /\ ~RootIsNaN(equal.v.volatility)
               /\ ~RootLt(equal.v.volatility, ret.v.volatility)

\* C19 as stated: optimize_portfolio and equal_weight_portfolio raise an input
\* error, and return no result, for a price matrix of fewer than 2 assets or
\* fewer than 2 rows.
C19_SmallMatrixRejected ==
    (/\ fn \in {"optimize_portfolio", "equal_weight_portfolio"}
     /\ (Len(prices.columns) < 2 \/ Len(prices.rows) < 2))
        => ret.k = "raise" /\ ret.ty \in {"FluxComputeError", "ValueError"} /\ result = NoResult

\* The dates at which every series of dfs has a non-missing value.
CommonDates(items) ==
    {t \in 1 .. AlignDates :
        \A i \in DOMAIN items : t \in Index(items[i].close) /\ ~IsNaN(At(items[i].close, t))}
\* The same dict with its tickers supplied in another order.
Reordered(items) ==
    {[i \in DOMAIN items |-> items[pi[i]]] : pi \in Permutations(DOMAIN items)}

\* C20: align_dataframes returns a frame whose index is, in increasing order,
\* exactly the dates at which every input series has a non-missing value, no
\* returned cell is missing, and the index is the same in whatever order the
\* tickers are supplied.
C20_InnerJoin ==
    fn = "align_dataframes" =>
        /\ ret.k = "value"
        /\ ret.v.index = SortedSeq(CommonDates(dfs))
        /\ \A j \in DOMAIN ret.v.data : \A i \in DOMAIN ret.v.data[j] : ~IsNaN(ret.v.data[j][i].v)
        /\ \A items \in Reordered(dfs) : align_dataframes(items).v.index = ret.v.index
\* Three tickers on different dates, a missing value among them, and a date
\* kept that the first ticker has among others it loses.
C20_Witness ==
    /\ fn = "align_dataframes"
    /\ Len(dfs) = 3
    /\ \E i, j \in DOMAIN dfs : Index(dfs[i].close) # Index(dfs[j].close)
    /\ \E i \in DOMAIN dfs : \E k \in DOMAIN dfs[i].close : IsNaN(dfs[i].close[k].v)
    /\ Len(ret.v.index) >= 1
    /\ Len(ret.v.index) < Len(dfs[1].close)

\* The keys the claim names as percentages; every other key is a plain number.
PercentKeys == {"total_return", "cagr", "volatility", "max_drawdown", "alpha", "tracking_error"}
\* The call of format_metrics this step makes leaves its input as it was and
\* returns, key by key in the same order, the value times 100 to 2 decimals
\* with "%" for a percentage key and the value to 2 decimals for another key.
FormatStep ==
    fn' = "format_metrics" =>
        /\ metrics' = metrics
        /\ ret'.k = "value"
        /\ DOMAIN ret'.v = DOMAIN metrics
        /\ \A i \in DOMAIN metrics :
              /\ ret'.v[i].key = metrics[i].key
              /\ ret'.v[i].value =
                    IF metrics[i].key \in PercentKeys
                    THEN Fixed2(FMul(metrics[i].value, Int2F(100))) \o "%"
                    ELSE Fixed2(metrics[i].value)
\* C21: format_metrics returns the keys of its input in the same order, the six
\* percentage keys rendered as value*100 with 2 decimals and "%", every other
\* key as a plain 2-decimal number, and does not modify its input.
C21_FormatMetrics == [][FormatStep]_vars
\* A percentage key and a key outside the table, formatted from a value that
\* is a tie of the rounding (0.125 is "12.50%" and 0.375 is "0.38").
C21_Witness ==
    /\ fn = "format_metrics"
    /\ Len(metrics) = 2
    /\ metrics[1] = [key |-> "alpha", value |-> Rat(1, 8)]
    /\ metrics[2] = [key |-> "omega", value |-> Rat(3, 8)]
    /\ ret.v[1].value = "12.50%"
    /\ ret.v[2].value = "0.38"

\* The calendar days from the first to the last timestamp of the series.
ElapsedDays(p) == p.s[Len(p.s)].t - p.s[1].t
FirstPrice(p) == p.s[1].v
LastPrice(p) == p.s[Len(p.s)].v
\* base ^ expo - 1 for a base > 0: the number itself when the base is 1.
GrowthMinusOne(base, expo) ==
    IF base = One THEN LinConst(Zero) ELSE LinSub(LinSym(base, expo), LinConst(One))
\* The order of a form b^e - 1 (b > 0, e > 0) or of a constant against 0 and
\* against b - 1, by the monotonicity of the power: b^e > 1 exactly when
\* b > 1, and b^e > b exactly when b > 1, e > 1 or b < 1, e < 1.
GrowthPositive(l) ==
    IF DOMAIN l.x = {} THEN FGt(l.c, Zero)
    ELSE \A s \in DOMAIN l.x : FGt(s.b, One)
GrowthAboveTotal(l) ==
    IF DOMAIN l.x = {} THEN FALSE
    ELSE \A s \in DOMAIN l.x :
            \/ FGt(s.b, One) /\ FGt(s.e, One)
            \/ FLt(s.b, One) /\ FLt(s.e, One)
\* C22: cagr of a valid series is exactly 0.0 when the elapsed days are <= 0
\* and otherwise (1 + total_return)^(365.25/days) - 1; for positive elapsed
\* days it is > 0 exactly when the last price exceeds the first, and a gain
\* over less than a year gives a cagr above the total return.
C22_Cagr ==
    (fn = "cagr" /\ ValidSeries(prices)) =>
        LET days == ElapsedDays(prices)
            tr == FSub(FDiv(LastPrice(prices), FirstPrice(prices)), One)
        IN  /\ ret.k = "value"
            /\ days <= 0 => ret.v = LinConst(Zero)
            /\ days > 0 =>
                  /\ ret.v = GrowthMinusOne(FAdd(One, tr), Rat(36525, 100 * days))
                  /\ GrowthPositive(ret.v) <=> FGt(LastPrice(prices), FirstPrice(prices))
                  /\ (FGt(tr, Zero) /\ 100 * days < 36525) => GrowthAboveTotal(ret.v)
\* A gain of a half over 365 days, a day less than a year.
C22_Witness ==
    /\ fn = "cagr"
    /\ Len(prices.s) = 2
    /\ ElapsedDays(prices) = 365
    /\ FirstPrice(prices) = Int2F(2) /\ LastPrice(prices) = Int2F(3)
    /\ ret.v = GrowthMinusOne(Rat(3, 2), Rat(36525, 36500))

\* C23: calmar_ratio of a valid series is cagr / |max_drawdown| when the
\* drawdown is non-zero and exactly 0.0 when it is 0, which is when the prices
\* never fall; a 50% drop followed by full recovery has max_drawdown -0.5 and
\* calmar_ratio cagr / 0.5.
C23_Calmar ==
    (fn = "calmar_ratio" /\ ValidSeries(prices)) =>
        LET mdd == max_drawdown(prices).v
            growth == cagr(prices).v
        IN  /\ ret.k = "value"
            /\ (mdd = Zero) <=> NonDecreasing(prices)
            /\ mdd = Zero => ret.v = LinConst(Zero)
            /\ mdd # Zero => ret.v = LinScale(growth, FDiv(One, FAbs(mdd)))
            /\ Values(prices.s) = <<Int2F(2), Int2F(1), Int2F(2)>> =>
                  /\ mdd = Rat(-1, 2)
                  /\ ret.v = LinScale(growth, Int2F(2))
\* The price 2 halved and recovered over two days of a rising year.
C23_Witness ==
    /\ fn = "calmar_ratio"
    /\ Values(prices.s) = <<Int2F(2), Int2F(1), Int2F(3)>>
    /\ ElapsedDays(prices) = 365
    /\ max_drawdown(prices).v = Rat(-1, 2)
    /\ ret.v = LinScale(GrowthMinusOne(Rat(3, 2), Rat(36525, 36500)), Int2F(2))

\* The daily returns of a valid series, as floats, and their extremes.
ReturnValues(p) == [i \in 1 .. (Len(p.s) - 1) |-> FSub(FDiv(p.s[i + 1].v, p.s[i].v), One)]
LeastReturn(p) == SortValues(ReturnValues(p))[1]
GreatestReturn(p) == SortValues(ReturnValues(p))[Len(p.s) - 1]
\* The value at the real position h (counted from 0) of the sorted returns,
\* on the line through the two order statistics around h.
Interpolated(xs, h) ==
    LET a == SortValues(xs)
        below == h.n \div h.d
        above == IF below + 1 < Len(xs) THEN below + 1 ELSE below
    IN  FAdd(a[below + 1], FMul(FSub(a[above + 1], a[below + 1]), FSub(h, Int2F(below))))
\* C24: value_at_risk of a valid series is the linearly interpolated
\* (1 - confidence) percentile of the daily returns, lies between the least and
\* the greatest daily return, and is rho when every daily return is rho.
C24_ValueAtRisk ==
    (fn = "value_at_risk" /\ ValidSeries(prices)) =>
        LET xs == ReturnValues(prices)
            h == FMul(FSub(One, args.confidence), Int2F(Len(xs) - 1))
        IN  /\ ret.k = "value"
            /\ ret.v = Interpolated(xs, h)
            /\ FLe(LeastReturn(prices), ret.v) /\ FLe(ret.v, GreatestReturn(prices))
            /\ ConstantReturn(prices) => ret.v = xs[1]
\* The median of the two returns 1 and -1/2 of the prices 1, 2, 1: 1/4,
\* halfway between them.
C24_Witness ==
    /\ fn = "value_at_risk"
    /\ Values(prices.s) = <<Int2F(1), Int2F(2), Int2F(1)>>
    /\ args.confidence = Rat(1, 2)
    /\ ret.v = Rat(1, 4)

\* The lagged difference taken by position: row i is log_return[i + lag] -
\* log_return[i], the logarithm of the quotient of the two ratios.
PositionalDifference(returns, lag) ==
    [i \in 1 .. (Len(returns) - lag) |-> FDiv(returns[i + lag].v, returns[i].v)]
\* C25: hurst_exponent of positive prices never raises; it returns 0.5 on
\* fewer than 2 * max_lag points or when the fit fails, and otherwise fits
\* every lag from 2 up to and including max_lag, with tau[lag] the standard
\* deviation of the positional lagged difference of the log returns.
C25_HurstFit ==
    (fn = "hurst_exponent" /\ PositivePrices(prices)) =>
        /\ ret.k = "value"
        /\ Len(prices.s) < 2 * args.max_lag => ret = RetRat(Rat(1, 2))
        /\ ret.ty = "fit" =>
              /\ ret.v.lags = 2 .. args.max_lag
              /\ \A lag \in ret.v.lags :
                    ret.v.tau[lag] = StdOfLogs(PositionalDifference(LogReturns(prices.s), lag))

\* The beta of the rows of a frame of aligned returns: cov / var, undefined
\* (never 0.0) when the benchmark has no variance.
WindowBeta(w) ==
    LET var_val == var(Column(w, "bench"))
    IN  IF FNe(var_val, Zero) THEN FDiv(cov(Column(w, "asset"), Column(w, "bench")), var_val)
        ELSE NaN
\* C26: rolling_beta returns a series on the aligned return dates; with the
\* entries counted from 0, entry i is NaN for i < window and for i >= window
\* is the beta of the `window` aligned observations that end at observation
\* i, NaN when the benchmark has no variance over them.
C26_RollingBeta ==
    (fn = "rolling_beta" /\ ValidSeries(prices) /\ ValidSeries(benchmark)) =>
        LET aligned == AlignedReturns(daily_returns(prices).v, daily_returns(benchmark).v)
            window == args.window
        IN  /\ ret.k = "value"
            /\ Len(ret.v) = Len(aligned)
            /\ \A k \in DOMAIN ret.v :
                  /\ ret.v[k].t = aligned[k].t
                  /\ k - 1 < window => IsNaN(ret.v[k].v)
                  /\ k - 1 >= window =>
                        ret.v[k].v = WindowBeta(SubSeq(aligned, k - window + 1, k))

\* The ticker's own pipeline succeeds: its fetch returned a frame and
\* compute_metrics returned on it.
PipelineSucceeds(f) == ~f.raised /\ ScreenMetrics(f).k # "raise"
\* C27: a screening returns a result in which every ticker whose fetch and
\* metric computation succeed appears exactly once with its own metrics, and
\* a ticker whose fetch or computation fails is the only one left out,
\* whatever the order in which the worker threads finish.
C27_IndependentPipelines ==
    fn = "screen_tickers" =>
        /\ ret.k = "value"
        /\ \A i \in DOMAIN futures :
              LET at == {j \in DOMAIN ret.v : ret.v[j].ticker = futures[i].ticker}
              IN  IF PipelineSucceeds(futures[i])
                  THEN /\ Cardinality(at) = 1
                       /\ \A j \in at : ret.v[j].metrics = ScreenMetrics(futures[i]).v
                  ELSE at = {}

\* The rate a call of optimize_portfolio works with: the one passed, else the
\* default of its signature.
PortfolioRate(a) == IF a.risk_free_rate.given THEN a.risk_free_rate.r ELSE PortfolioDefaultRate
\* C28: on a price matrix with an asset, optimize_portfolio with a known
\* objective returns the mapping return, volatility, sharpe_ratio, weights
\* computed at the point the solver stopped at, whether the solver reports
\* success or not; with another objective it raises ValueError without a
\* call of the solver.
C28_SolverStatusUnchecked ==
    (fn = "optimize_portfolio" /\ Len(prices.columns) >= 1) =>
        IF args.objective \in Objectives
        THEN /\ result.success \in BOOLEAN
             /\ ret.k = "value"
             /\ DOMAIN ret.v = {"return", "volatility", "sharpe_ratio", "weights"}
             /\ ret = optimize_portfolio_after(prices.columns, mean_returns(prices),
                                               cov_matrix(prices), PortfolioRate(args), result.x)
        ELSE /\ ret.k = "raise" /\ ret.ty = "ValueError"
             /\ result = NoResult
\* The solver reports failure at a point whose weights do not sum to 1, and
\* the call returns that point as the allocation.
C28_Witness ==
    /\ fn = "optimize_portfolio"
    /\ Len(prices.columns) = 2
    /\ result.success = FALSE
    /\ ~constraints(result.x)
    /\ ret.k = "value"
    /\ ret.v.weights = WeightsDict(prices.columns, result.x)

\* The keywords of a call that name no attribute of the config, by position.
UnknownAt(kwargs) == {i \in DOMAIN kwargs : ~hasattr(GLOBAL_CONFIG, kwargs[i].key)}
\* The call of set_config this step makes, if one of its keys is unknown,
\* raises AttributeError and leaves each setting at the value of the last
\* keyword before the first unknown key that names it, or as it was if there
\* is none: the keywords from the unknown key on change nothing.
SetConfigStep ==
    (fn' = "set_config" /\ UnknownAt(args'.kwargs) # {}) =>
        LET kwargs == args'.kwargs
            first == CHOOSE i \in UnknownAt(kwargs) : \A j \in UnknownAt(kwargs) : i <= j
        IN  /\ ret'.k = "raise" /\ ret'.ty = "AttributeError"
            /\ \A s \in Settings :
                  LET before == {i \in 1 .. (first - 1) : Target(kwargs[i].key) = s}
                  IN  GLOBAL_CONFIG'[s] =
                          IF before = {} THEN GLOBAL_CONFIG[s]
                          ELSE kwargs[CHOOSE i \in before : \A j \in before : j <= i].value
\* C29: set_config applies its keywords one at a time in argument order: when
\* a call has an unknown key, the settings named before it have been changed
\* when the error is raised and the settings named after it are unchanged.
C29_NotAtomic == [][SetConfigStep]_vars
\* A call that named timeout before an unknown key: it has raised and the
\* timeout is the one it gave.
C29_Witness ==
    /\ fn = "set_config"
    /\ args.kwargs = <<[key |-> "timeout", value |-> 10], [key |-> "theme", value |-> "x"]>>
    /\ ret.k = "raise"
    /\ GLOBAL_CONFIG.timeout = 10
    /\ GLOBAL_CONFIG.default_theme = "flux"

\* The daily returns that are <= x.
ReturnsUpTo(p, x) == SelectSeq(ReturnValues(p), LAMBDA r : FLe(r, x))
\* C30: for every valid series and confidence in (0, 1), conditional_va_risk
\* is defined, the returns <= value_at_risk never being none, and
\* min(daily returns) <= conditional_va_risk <= value_at_risk.
C30_ConditionalVaR ==
    (fn = "conditional_va_risk" /\ ValidSeries(prices)) =>
        LET value_at == value_at_risk(prices, args.confidence).v
            tail == ReturnsUpTo(prices, value_at)
        IN  /\ FLt(Zero, args.confidence) /\ FLt(args.confidence, One)
            /\ Len(tail) >= 1
            /\ ret.k = "value"
            /\ ~IsNaN(ret.v)
            /\ ret.v = FDiv(SeqSum(tail), Int2F(Len(tail)))
            /\ FLe(LeastReturn(prices), ret.v)
            /\ FLe(ret.v, value_at)
\* The prices 1, 2, 1 at confidence 0.5: the VaR is 1/4, and the one return
\* at or below it, -1/2, is the conditional VaR.
C30_Witness ==
    /\ fn = "conditional_va_risk"
    /\ Values(prices.s) = <<Int2F(1), Int2F(2), Int2F(1)>>
    /\ args.confidence = Rat(1, 2)
    /\ value_at_risk(prices, args.confidence).v = Rat(1, 4)
    /\ ret.v = Rat(-1, 2)

====
